---- MODULE Spec2Model ----
(***************************************************************************)
(* A model of io_scene_psk_psa: PskImporter.import_psk (skeleton building  *)
(* and the bind-pose properties it stores) and PsaImporter.import_psa      *)
(* (bone mapping, world-to-local conversion, keyframe cleaning, writing).  *)
(*                                                                         *)
(* Numbers.  Quaternions are the 24 Hurwitz units, stored doubled as       *)
(* integer 4-tuples <<w,x,y,z>> of squared length 4, so that products,     *)
(* conjugates and the rotation matrices they denote are exact; the         *)
(* rotation matrices are the 12 signed permutation matrices of the         *)
(* tetrahedral group, which does not commute.  F-curve values are          *)
(* fixed-point in units of 0.0005, so the threshold 0.001 is 2.            *)
(* Indices are 0-based as in the Python source.                            *)
(***************************************************************************)
EXTENDS Integers, Sequences, FiniteSets, TLC

\* ------------------------------------------------------------------------
\* Bounds of the model
MaxFrames == 3
MaxBones == 3
MaxFaces == 3
MaxSharedWedges == 2

\* threshold = 0.001 (psa/importer.py line 156), in units of 0.0005
Threshold == 2

\* 1.0 in f-curve units; a doubled quaternion component k stands for k/2
One == 1000 * Threshold
Half == 500 * Threshold

\* ------------------------------------------------------------------------
\* mathutils values

Abs(x) == IF x < 0 THEN 0 - x ELSE x

\* max(0, psk_bone.parent_index)
Max0(x) == IF x < 0 THEN 0 ELSE x

\* Vector() and Vector arithmetic
ZeroVector == <<0, 0, 0>>
VAdd(a, b) == <<a[1] + b[1], a[2] + b[2], a[3] + b[3]>>
VSub(a, b) == <<a[1] - b[1], a[2] - b[2], a[3] - b[3]>>

\* Quaternion(): the identity, doubled
QIdentity == <<2, 0, 0, 0>>
QI == <<0, 2, 0, 0>>
QA == <<1, 1, 1, 1>>
QB == <<1, 1, -1, 1>>

UnitQuats ==
    {<<2, 0, 0, 0>>, <<-2, 0, 0, 0>>, <<0, 2, 0, 0>>, <<0, -2, 0, 0>>,
     <<0, 0, 2, 0>>, <<0, 0, -2, 0>>, <<0, 0, 0, 2>>, <<0, 0, 0, -2>>}
    \cup {<<w, x, y, z>> : w \in {-1, 1}, x \in {-1, 1}, y \in {-1, 1}, z \in {-1, 1}}

\* Quaternion.conjugated() / Quaternion.conjugate()
Conj(q) == <<q[1], 0 - q[2], 0 - q[3], 0 - q[4]>>

\* Quaternion.to_matrix(): the 3x3 rotation matrix of a (doubled) unit quaternion
QuatToMat(q) ==
    LET w == q[1]  x == q[2]  y == q[3]  z == q[4]
    IN  << << 1 - ((y*y + z*z) \div 2), (x*y - w*z) \div 2, (x*z + w*y) \div 2 >>,
           << (x*y + w*z) \div 2, 1 - ((x*x + z*z) \div 2), (y*z - w*x) \div 2 >>,
           << (x*z - w*y) \div 2, (y*z + w*x) \div 2, 1 - ((x*x + y*y) \div 2) >> >>

\* The sign mat3_to_quat gives its result: w >= 0, and for w = 0 the first
\* non-zero component positive.
IsCanonical(q) ==
    \/ q[1] > 0
    \/ q[1] = 0 /\ q[2] > 0
    \/ q[1] = 0 /\ q[2] = 0 /\ q[3] > 0
    \/ q[1] = 0 /\ q[2] = 0 /\ q[3] = 0 /\ q[4] > 0

\* The rotation matrices of the unit quaternions, each with its canonical quaternion
CanonicalQuatOf ==
    [m \in {QuatToMat(q) : q \in UnitQuats} |->
        CHOOSE q \in UnitQuats : IsCanonical(q) /\ QuatToMat(q) = m]

\* Matrix.to_quaternion(): the canonical quaternion of a rotation matrix
MatToQuat(m) == CanonicalQuatOf[m]

IdentityMat3 == << <<1, 0, 0>>, <<0, 1, 0>>, <<0, 0, 1>> >>

\* mul_m3_m3m3: the matrix product a . b
MatMul(a, b) ==
    [i \in 1..3 |-> [j \in 1..3 |->
        a[i][1] * b[1][j] + a[i][2] * b[2][j] + a[i][3] * b[3][j]]]

\* Vector.rotate(m): m . v
MatVec(m, v) ==
    [i \in 1..3 |-> m[i][1] * v[1] + m[i][2] * v[2] + m[i][3] * v[3]]

\* Quaternion.rotate(other), other already a rotation matrix:
\* self becomes to_quaternion(other_rmat . self_rmat)
QRotateMat(q, m) == MatToQuat(MatMul(m, QuatToMat(q)))

\* Quaternion.rotate(other) for every pair of unit quaternions, computed once
QRotateTable ==
    [q \in UnitQuats |-> [other \in UnitQuats |-> QRotateMat(q, QuatToMat(other))]]

\* Quaternion.rotate(other), other a quaternion
QRotate(q, other) == QRotateTable[q][other]

\* Vector.rotate(other), other a quaternion
VRotate(v, other) == MatVec(QuatToMat(other), v)

\* Matrix(): the 4x4 identity, kept as rotation part and translation
IdentityMat4 == [rot |-> IdentityMat3, translation |-> ZeroVector]

\* Matrix.Translation(v)
Translation(v) == [rot |-> IdentityMat3, translation |-> v]

\* Matrix.to_4x4() of a 3x3 matrix
To4x4(m) == [rot |-> m, translation |-> ZeroVector]

\* ------------------------------------------------------------------------
\* State

VARIABLES
    \* import_psk
    psk_bones,            \* psk.bones: index -> [name, parent_index, rotation, location]
    psk_import_bones,     \* import_bones of import_psk
    edit_bones,           \* armature_data.edit_bones, in creation order
    bpy_data,             \* data-blocks created so far (bpy.data.*.new)
    scene_objects,        \* objects linked into context.scene.collection
    psk_error,            \* the exception that ended import_psk, or "none"
    psk_pc,               \* position in import_psk
    psk_mesh,             \* psk: point count, wedges, faces, extra_uvs, vertex_colors
    psk_options,          \* PskImportOptions
    bm_faces,             \* faces of the mesh, in creation order: corner -> point index
    degenerate_face_indices,
    uv_layers,            \* mesh_data.uv_layers: [name, data], data per loop
    vertex_colors,        \* point index -> colour, Unset until a wedge gives one
    ambiguous_vertex_color_point_indices,
    vertex_color_data,    \* the VERTEXCOLOR layer: colour per loop
    warnings,             \* counts printed: [degenerate, ambiguous]
    \* import_psa
    psa_bones,            \* psa_reader.bones: index -> name field
    sequence_names,       \* name fields of the requested sequences not yet imported
    psa_error,            \* the exception that ended import_psa, or "none"
    armature,             \* armature_data.bones of the target armature
    should_clean_keys,    \* options.should_clean_keys
    requested_epsilon,    \* the epsilon a caller asks for; the options carry no such field
    sequences_left,       \* requested sequences not yet imported
    psa_to_armature_bone_indices,
    missing_bone_names,
    psa_import_bones,     \* import_bones of import_psa
    psa_keys,             \* the sequence's samples as stored in the file
    sequence_data_matrix,
    keyframe_write_matrix,
    fcurves,              \* f-curves of the action being built: <<bone name, index>>
    keyframes,            \* its keyframe points: <<bone name, index, frame, value>>
    actions,              \* number of actions appended
    psa_pc,               \* position in import_psa
    \* the PSK export operators
    material_list,        \* scene.psk_export.material_list: items [material, index]
    material_list_index,  \* scene.psk_export.material_list_index
    export_result         \* what the last operator returned or raised, or "none"

mesh_in_vars == <<psk_mesh, psk_options>>
mesh_out_vars == <<bm_faces, degenerate_face_indices, uv_layers, vertex_colors,
                   ambiguous_vertex_color_point_indices, vertex_color_data, warnings>>
psk_vars == <<psk_bones, psk_import_bones, edit_bones, bpy_data, scene_objects,
              psk_error, psk_pc, mesh_in_vars, mesh_out_vars>>
psa_vars == <<psa_bones, sequence_names, psa_error, armature, should_clean_keys, requested_epsilon, sequences_left,
              psa_to_armature_bone_indices, missing_bone_names, psa_import_bones,
              psa_keys, sequence_data_matrix, keyframe_write_matrix, fcurves,
              keyframes, actions, psa_pc>>
export_vars == <<material_list, material_list_index, export_result>>
vars == <<psk_vars, psa_vars, export_vars>>

\* ------------------------------------------------------------------------
\* import_psk: the skeleton

\* ImportBone.parent = None, and a bone without parent
NoParentIndex == 0 - 1

BoneNames == <<"root", "spine", "head", "hand", "tip">>

\* Bind poses a file may give a bone: (rotation, location), location in units of 0.0005
BindPoses ==
    { [rotation |-> QA, location |-> <<0, One, 0>>],
      [rotation |-> QI, location |-> <<One, 0, 0>>],
      [rotation |-> QB, location |-> <<0, 0, Half>>] }

\* The root test of lines 73 and 79
IsRootEntry(psk_bone, bone_index) == psk_bone.parent_index = 0 /\ bone_index = 0

\* Lines 68-76 for one bone: the ImportBone, with the world matrices of the root
NewImportBone(bone_index, psk_bone) ==
    LET root == IsRootEntry(psk_bone, bone_index)
    IN  [ index |-> bone_index,
          parent |-> NoParentIndex,
          local_rotation |-> psk_bone.rotation,
          local_translation |-> psk_bone.location,
          world_rotation_matrix |->
              IF root THEN QuatToMat(psk_bone.rotation) ELSE IdentityMat3,
          world_matrix |->
              IF root THEN Translation(psk_bone.location) ELSE IdentityMat4 ]

\* Line 70: psk_bone.parent_index = max(0, psk_bone.parent_index)
ClampParents(bones) ==
    [i \in DOMAIN bones |-> [bones[i] EXCEPT !.parent_index = Max0(@)]]

\* Lines 68-76: the first pass
FirstPass(bones) ==
    [i \in DOMAIN bones |-> NewImportBone(i, ClampParents(bones)[i])]

\* Mutant of ComposeBone: the parent's rotation is applied on the other side
ComposeBone_Commuted(ibs, bone_index, parent_index) ==
    LET s1 == [ibs EXCEPT ![bone_index].parent = parent_index]
        s2 == [s1 EXCEPT ![bone_index].world_matrix =
                   To4x4(s1[parent_index].world_rotation_matrix)]
        translation == MatVec(s2[parent_index].world_rotation_matrix,
                              s2[bone_index].local_translation)
        s3 == [s2 EXCEPT ![bone_index].world_matrix.translation =
                   VAdd(s2[parent_index].world_matrix.translation, translation)]
        s4 == [s3 EXCEPT ![bone_index].world_rotation_matrix =
                   QuatToMat(Conj(s3[bone_index].local_rotation))]
    IN  [s4 EXCEPT ![bone_index].world_rotation_matrix =
             MatMul(@, s4[parent_index].world_rotation_matrix)]

\* Lines 81-88 for one non-root bone; each statement reads the bones as the
\* statements before it left them (a bone may name itself as parent)
ComposeBone(ibs, bone_index, parent_index) ==
    LET s1 == [ibs EXCEPT ![bone_index].parent = parent_index]
        s2 == [s1 EXCEPT ![bone_index].world_matrix =
                   To4x4(s1[parent_index].world_rotation_matrix)]
        translation == MatVec(s2[parent_index].world_rotation_matrix,
                              s2[bone_index].local_translation)
        s3 == [s2 EXCEPT ![bone_index].world_matrix.translation =
                   VAdd(s2[parent_index].world_matrix.translation, translation)]
        s4 == [s3 EXCEPT ![bone_index].world_rotation_matrix =
                   QuatToMat(Conj(s3[bone_index].local_rotation))]
    IN  [s4 EXCEPT ![bone_index].world_rotation_matrix =
             MatMul(s4[parent_index].world_rotation_matrix, @)]

\* Lines 78-88: the second pass from bone_index on, in index order; indexing
\* import_bones past its end raises IndexError and ends the pass there
RECURSIVE SecondPassFrom(_, _, _)
SecondPassFrom(ibs, bones, bone_index) ==
    IF bone_index \notin DOMAIN bones
    THEN [import_bones |-> ibs, error |-> "none"]
    ELSE IF IsRootEntry(bones[bone_index], bone_index)
    THEN SecondPassFrom(ibs, bones, bone_index + 1)
    ELSE IF bones[bone_index].parent_index \notin DOMAIN bones
    THEN [import_bones |-> ibs, error |-> "IndexError"]
    ELSE SecondPassFrom(ComposeBone(ibs, bone_index, bones[bone_index].parent_index),
                        bones, bone_index + 1)

SecondPass(ibs, bones) == SecondPassFrom(ibs, bones, 0)

\* Name fields are byte strings. A name of ASCII bytes is written as its text;
\* a byte above 0x7F is written <XX>, a decoded character outside ASCII {...}.
DecodeError == "UnicodeDecodeError"

\* Names holding a byte sequence that is not valid UTF-8
InvalidUtf8 == {"caf<E9>", "bip<81>"}

\* Names holding a byte that windows-1252 leaves undefined (0x81)
UndefinedCp1252 == {"bip<C2><81>", "bip<81>"}

\* bytes.decode('utf-8') and bytes.decode(): the text, or UnicodeDecodeError
decode_utf8(name) ==
    IF name \in InvalidUtf8 THEN DecodeError
    ELSE IF name = "caf<C3><A9>" THEN "caf{e-acute}"
    ELSE IF name = "bip<C2><81>" THEN "bip{U+0081}"
    ELSE name

\* bytes.decode('windows-1252'): the text, or UnicodeDecodeError
decode_windows_1252(name) ==
    IF name \in UndefinedCp1252 THEN DecodeError
    ELSE IF name = "caf<C3><A9>" THEN "caf{A-tilde}{copyright}"
    ELSE IF name = "caf<E9>" THEN "caf{e-acute}"
    ELSE name

\* edit_bones.new(name): the bone before anything is assigned to it
NewEditBone(name) ==
    [ name |-> name, parent |-> NoParentIndex, matrix |-> IdentityMat4,
      has_props |-> FALSE, orig_quat |-> QIdentity, orig_loc |-> ZeroVector,
      post_quat |-> QIdentity ]

\* Lines 94-97: the rotation kept for the bone; a bone without parent has its
\* local_rotation conjugated in place
BindRotation(import_bone) ==
    IF import_bone.parent # NoParentIndex
    THEN import_bone.local_rotation
    ELSE Conj(import_bone.local_rotation)

\* Lines 100-104: edit_bone.matrix
EditBoneMatrix(local_rotation, world_matrix) ==
    [ rot |-> QuatToMat(QRotateMat(Conj(local_rotation), world_matrix.rot)),
      translation |-> world_matrix.translation ]

\* Mutant of FillEditBone: post_quat is stored as the rotation itself
FillEditBone_PostNotConjugated(edit_bone, local_rotation, import_bone) ==
    [ edit_bone EXCEPT
        !.matrix = EditBoneMatrix(local_rotation, import_bone.world_matrix),
        !.has_props = TRUE,
        !.orig_quat = local_rotation,
        !.orig_loc = import_bone.local_translation,
        !.post_quat = local_rotation ]

\* Lines 99-110 for one bone: matrix and bind-pose custom properties
FillEditBone(edit_bone, local_rotation, import_bone) ==
    [ edit_bone EXCEPT
        !.matrix = EditBoneMatrix(local_rotation, import_bone.world_matrix),
        !.has_props = TRUE,
        !.orig_quat = local_rotation,
        !.orig_loc = import_bone.local_translation,
        !.post_quat = Conj(local_rotation) ]

\* Line 95: edit_bone.parent = edit_bones[parent_index]; a bone is not made its
\* own parent (the assignment is ignored)
ParentAssigned(bone_index, parent_index) ==
    IF parent_index = bone_index THEN NoParentIndex ELSE parent_index

\* Lines 90-110: the third pass from bone_index on; decoding the bone's name
\* raises UnicodeDecodeError when it is not UTF-8, and edit_bones[parent_index]
\* raises IndexError when that edit bone does not exist yet
RECURSIVE ThirdPassFrom(_, _, _, _)
ThirdPassFrom(ebs, ibs, bones, bone_index) ==
    IF bone_index \notin DOMAIN bones
    THEN [edit_bones |-> ebs, import_bones |-> ibs, error |-> "none"]
    ELSE
    LET import_bone == ibs[bone_index]
        bone_name == decode_utf8(bones[bone_index].name)
        created == Append(ebs, NewEditBone(bone_name))
        parent_index == bones[bone_index].parent_index
    IN  IF bone_name = DecodeError
        THEN [edit_bones |-> ebs, import_bones |-> ibs, error |-> DecodeError]
        ELSE
        IF import_bone.parent # NoParentIndex /\ parent_index >= Len(created)
        THEN [edit_bones |-> created, import_bones |-> ibs, error |-> "IndexError"]
        ELSE
        LET local_rotation == BindRotation(import_bone)
            parent == IF import_bone.parent # NoParentIndex
                      THEN ParentAssigned(bone_index, parent_index)
                      ELSE NoParentIndex
            filled == FillEditBone([created[Len(created)] EXCEPT !.parent = parent],
                                   local_rotation, import_bone)
        IN  ThirdPassFrom([created EXCEPT ![Len(created)] = filled],
                          [ibs EXCEPT ![bone_index].local_rotation = local_rotation],
                          bones, bone_index + 1)

ThirdPass(ibs, bones) == ThirdPassFrom(<<>>, ibs, bones, 0)

\* ------------------------------------------------------------------------
\* import_psk: the mesh

\* 1.0 of a UV coordinate, in tenths
UvOne == 10

\* A full colour byte, and the float 1.0 of a normalized colour in units of 1/255
ByteMax == 255

\* np.full(size, inf): the row of a point no wedge has coloured yet
Unset == <<0 - 1, 0 - 1, 0 - 1, 0 - 1>>

\* Line 132: the wedges of a face in the reverse of the stored order
ReversedWedgeIndices(face) ==
    <<face.wedge_indices[3], face.wedge_indices[2], face.wedge_indices[1]>>

\* Line 132: point_indices, the vertex of each corner
PointIndices(psk, face) ==
    [i \in 1..3 |-> psk.wedges[ReversedWedgeIndices(face)[i]].point_index]

\* Line 134: bm.faces.new raises ValueError when a vertex is used twice or when a
\* face on the same vertices exists already
FaceRejected(faces, point_indices) ==
    \/ Cardinality({point_indices[i] : i \in 1..3}) < 3
    \/ \E k \in 1..Len(faces) :
         {faces[k].verts[i] : i \in 1..3} = {point_indices[i] : i \in 1..3}

\* Lines 130-137: the faces created and the indices of the faces rejected
RECURSIVE NewFacesFrom(_, _, _, _)
NewFacesFrom(psk, faces, degenerate, face_index) ==
    IF face_index \notin DOMAIN psk.faces
    THEN [bm_faces |-> faces, degenerate_face_indices |-> degenerate]
    ELSE LET point_indices == PointIndices(psk, psk.faces[face_index])
         IN  IF FaceRejected(faces, point_indices)
             THEN NewFacesFrom(psk, faces, degenerate \cup {face_index}, face_index + 1)
             ELSE NewFacesFrom(psk,
                      Append(faces, [verts |-> point_indices,
                                     material_index |->
                                         psk.faces[face_index].material_index]),
                      degenerate, face_index + 1)

NewFaces(psk) == NewFacesFrom(psk, <<>>, {}, 0)

\* Line 152: the UV of a wedge, v flipped
WedgeUV(wedge) == <<wedge.u, UvOne - wedge.v>>

\* Lines 147-153: uv_layer.data, entry data_index written per wedge of every face
\* outside degenerate_face_indices
RECURSIVE PrimaryUVDataFrom(_, _, _, _)
PrimaryUVDataFrom(psk, degenerate, data, face_index) ==
    IF face_index \notin DOMAIN psk.faces
    THEN data
    ELSE IF face_index \in degenerate
    THEN PrimaryUVDataFrom(psk, degenerate, data, face_index + 1)
    ELSE LET face_wedges == ReversedWedgeIndices(psk.faces[face_index])
         IN  PrimaryUVDataFrom(psk, degenerate,
                 data \o [i \in 1..3 |-> WedgeUV(psk.wedges[face_wedges[i]])],
                 face_index + 1)

\* Lines 145-153
PrimaryUVLayer(psk, degenerate) ==
    [name |-> "VTXW0000", data |-> PrimaryUVDataFrom(psk, degenerate, <<>>, 0)]

\* Lines 162-168 for one extra channel
RECURSIVE ExtraUVDataFrom(_, _, _, _, _)
ExtraUVDataFrom(psk, degenerate, wedge_index_offset, data, face_index) ==
    IF face_index \notin DOMAIN psk.faces
    THEN data
    ELSE IF face_index \in degenerate
    THEN ExtraUVDataFrom(psk, degenerate, wedge_index_offset, data, face_index + 1)
    ELSE LET face_wedges == ReversedWedgeIndices(psk.faces[face_index])
         IN  ExtraUVDataFrom(psk, degenerate, wedge_index_offset,
                 data \o [i \in 1..3 |->
                     LET uv == psk.extra_uvs[wedge_index_offset + face_wedges[i]]
                     IN  <<uv[1], UvOne - uv[2]>>],
                 face_index + 1)

\* Line 157: extra_uv_channel_count
ExtraUVChannelCount(psk) ==
    Cardinality(DOMAIN psk.extra_uvs) \div Cardinality(DOMAIN psk.wedges)

\* Lines 156-169: one layer EXTRAUV<n> per channel
ExtraUVLayers(psk, options, degenerate) ==
    IF psk.has_extra_uvs /\ options.should_import_extra_uvs
    THEN [n \in 1..ExtraUVChannelCount(psk) |->
            [name |-> "EXTRAUV" \o ToString(n - 1),
             data |-> ExtraUVDataFrom(psk, degenerate,
                          (n - 1) * Cardinality(DOMAIN psk.wedges), <<>>, 0)]]
    ELSE <<>>

\* Color.normalized(): each byte divided by 255.0, here in units of 1/255
Normalized(color) == [i \in 1..4 |-> color[i]]

\* rgb_to_srgb on the values a normalized colour takes here, in units of 1/255:
\* 12.92 c up to 0.0031308, 1.055 c^(1/2.4) - 0.055 above; inf stays inf
rgb_to_srgb(c) ==
    IF c = Unset[1] THEN c
    ELSE IF c = 0 THEN 0
    ELSE IF c = 128 THEN 188
    ELSE ByteMax

\* Mutant of ResolveWedge: the colour of the last wedge of a vertex is kept
ResolveWedge_LastWins(resolved, point_index, psk_vertex_color) ==
    IF /\ resolved.vertex_colors[point_index][1] # Unset[1]
       /\ resolved.vertex_colors[point_index] # psk_vertex_color
    THEN [resolved EXCEPT !.ambiguous_vertex_color_point_indices =
              Append(@, point_index),
          !.vertex_colors[point_index] = psk_vertex_color]
    ELSE [resolved EXCEPT !.vertex_colors[point_index] = psk_vertex_color]

\* Lines 179-184 for one wedge
ResolveWedge(resolved, point_index, psk_vertex_color) ==
    IF /\ resolved.vertex_colors[point_index][1] # Unset[1]
       /\ resolved.vertex_colors[point_index] # psk_vertex_color
    THEN [resolved EXCEPT !.ambiguous_vertex_color_point_indices =
              Append(@, point_index)]
    ELSE [resolved EXCEPT !.vertex_colors[point_index] = psk_vertex_color]

\* Lines 178-184: the loop over the wedges
RECURSIVE ResolveVertexColorsFrom(_, _, _)
ResolveVertexColorsFrom(psk, resolved, wedge_index) ==
    IF wedge_index \notin DOMAIN psk.wedges \/ ~psk.has_vertex_colors
    THEN resolved
    ELSE ResolveVertexColorsFrom(psk,
             ResolveWedge(resolved, psk.wedges[wedge_index].point_index,
                          Normalized(psk.vertex_colors[wedge_index])),
             wedge_index + 1)

\* Lines 173-184
ResolveVertexColors(psk) ==
    ResolveVertexColorsFrom(psk,
        [vertex_colors |-> [point_index \in 0..(psk.point_count - 1) |-> Unset],
         ambiguous_vertex_color_point_indices |-> <<>>], 0)

\* Lines 186-188: the first three channels of every row through rgb_to_srgb
ToColorSpace(colors, options) ==
    IF options.vertex_color_space = "SRGBA"
    THEN [point_index \in DOMAIN colors |->
            <<rgb_to_srgb(colors[point_index][1]), rgb_to_srgb(colors[point_index][2]),
              rgb_to_srgb(colors[point_index][3]), colors[point_index][4]>>]
    ELSE colors

\* mesh_data.loops after bm.to_mesh: the corners of the faces, face after face
LoopVertexIndices(faces) ==
    [loop_index \in 1..(3 * Len(faces)) |->
        faces[((loop_index - 1) \div 3) + 1].verts[((loop_index - 1) % 3) + 1]]

\* Lines 190-195: the colour of every loop
LoopColors(faces, colors) ==
    [loop_index \in 1..(3 * Len(faces)) |-> colors[LoopVertexIndices(faces)[loop_index]]]

\* Lines 35-49: the armature is created and linked before any bone is read
LinkArmature ==
    /\ psk_pc = "start"
    /\ bpy_data' = bpy_data \cup {"armature", "armature_object"}
    /\ scene_objects' = scene_objects \cup {"armature_object"}
    /\ psk_pc' = "linked"
    /\ UNCHANGED <<psk_bones, psk_import_bones, edit_bones, psk_error, mesh_in_vars,
                   mesh_out_vars, psa_vars, export_vars>>

\* Lines 66-76
CreateImportBones ==
    /\ psk_pc = "linked"
    /\ psk_bones' = ClampParents(psk_bones)
    /\ psk_import_bones' = FirstPass(psk_bones)
    /\ psk_pc' = "pass1"
    /\ UNCHANGED <<edit_bones, bpy_data, scene_objects, psk_error, mesh_in_vars,
                   mesh_out_vars, psa_vars, export_vars>>

\* Lines 78-88
ComposeWorld ==
    /\ psk_pc = "pass1"
    /\ LET r == SecondPass(psk_import_bones, psk_bones)
       IN  /\ psk_import_bones' = r.import_bones
           /\ psk_error' = r.error
           /\ psk_pc' = IF r.error = "none" THEN "pass2" ELSE "raised"
    /\ UNCHANGED <<psk_bones, edit_bones, bpy_data, scene_objects, mesh_in_vars,
                   mesh_out_vars, psa_vars, export_vars>>

\* Lines 90-110
CreateEditBones ==
    /\ psk_pc = "pass2"
    /\ LET r == ThirdPass(psk_import_bones, psk_bones)
       IN  /\ edit_bones' = r.edit_bones
           /\ psk_import_bones' = r.import_bones
           /\ psk_error' = r.error
           /\ psk_pc' = IF r.error = "none" THEN "pass3" ELSE "raised"
    /\ UNCHANGED <<psk_bones, bpy_data, scene_objects, mesh_in_vars,
                   mesh_out_vars, psa_vars, export_vars>>

\* Lines 117-120: the materials created before a name fails to decode
MaterialsCreated(psk) ==
    {k \in DOMAIN psk.materials :
        \A j \in 1..k : decode_utf8(psk.materials[j]) # DecodeError}

\* Lines 212-216: every bone with weights has a name that windows-1252 decodes
VertexGroupsNamed(psk, bones) ==
    \A bone_index \in psk.weights \cap DOMAIN bones :
        decode_windows_1252(bones[bone_index].name) # DecodeError

\* Lines 112-231: mesh, materials, faces, UV layers, vertex colours, vertex
\* groups and the link of the mesh object. A material name that is not UTF-8
\* ends the import with the mesh data-blocks created and nothing built; the name
\* of a weighted bone that windows-1252 cannot decode ends it with the mesh
\* built and not linked
BuildMesh ==
    /\ psk_pc = "pass3"
    /\ bpy_data' = bpy_data \cup {"mesh", "mesh_object"}
                      \cup (IF MaterialsCreated(psk_mesh) # {} THEN {"material"} ELSE {})
    /\ IF MaterialsCreated(psk_mesh) # DOMAIN psk_mesh.materials
       THEN /\ psk_error' = DecodeError
            /\ psk_pc' = "raised"
            /\ UNCHANGED <<scene_objects, mesh_out_vars>>
       ELSE
       /\ IF VertexGroupsNamed(psk_mesh, psk_bones)
          THEN /\ psk_error' = psk_error
               /\ psk_pc' = "done"
               /\ scene_objects' = scene_objects \cup {"mesh_object"}
          ELSE /\ psk_error' = DecodeError
               /\ psk_pc' = "raised"
               /\ UNCHANGED scene_objects
       /\ LET faces == NewFaces(psk_mesh)
              colors == ResolveVertexColors(psk_mesh)
              imported == psk_mesh.has_vertex_colors
                            /\ psk_options.should_import_vertex_colors
              final_colors == IF imported
                              THEN ToColorSpace(colors.vertex_colors, psk_options)
                              ELSE <<>>
              ambiguous == IF imported
                           THEN colors.ambiguous_vertex_color_point_indices
                           ELSE <<>>
          IN  /\ bm_faces' = faces.bm_faces
              /\ degenerate_face_indices' = faces.degenerate_face_indices
              /\ uv_layers' =
                    <<PrimaryUVLayer(psk_mesh, faces.degenerate_face_indices)>>
                    \o ExtraUVLayers(psk_mesh, psk_options, faces.degenerate_face_indices)
              /\ vertex_colors' = final_colors
              /\ ambiguous_vertex_color_point_indices' = ambiguous
              /\ vertex_color_data' =
                    IF imported THEN LoopColors(faces.bm_faces, final_colors) ELSE <<>>
              /\ warnings' = [degenerate |-> Cardinality(faces.degenerate_face_indices),
                              ambiguous |-> Len(ambiguous)]
    /\ UNCHANGED <<psk_bones, psk_import_bones, edit_bones, mesh_in_vars, psa_vars, export_vars>>

PskNext ==
    \/ LinkArmature
    \/ CreateImportBones
    \/ ComposeWorld
    \/ CreateEditBones
    \/ BuildMesh

\* A bone array of a PSK file: n bones, each parent_index in -1..n
PskBoneArrays ==
    UNION { [0..(n - 1) -> [parent_index : (0 - 1)..n, pose : BindPoses]] :
            n \in 1..MaxBones }

\* A root and one bone on it
RigBones ==
    [i \in 0..1 |->
        [ name |-> BoneNames[i + 1], parent_index |-> 0,
          rotation |-> IF i = 0 THEN QA ELSE QI,
          location |-> IF i = 0 THEN <<0, 0, 0>> ELSE <<0, One, 0>> ]]

PskFile(array) ==
    [i \in DOMAIN array |->
        [ name |-> BoneNames[i + 1], parent_index |-> array[i].parent_index,
          rotation |-> array[i].pose.rotation, location |-> array[i].pose.location ]]

\* PskImportOptions as the operator fills them (lines 291-297)
MeshOptions ==
    [should_import_extra_uvs : BOOLEAN, should_import_vertex_colors : BOOLEAN,
     vertex_color_space : {"LINEAR", "SRGBA"}]

DefaultOptions ==
    [should_import_extra_uvs |-> TRUE, should_import_vertex_colors |-> TRUE,
     vertex_color_space |-> "SRGBA"]

\* Colours of a file: two reds that differ in alpha only, a half red, and green
Red == <<ByteMax, 0, 0, ByteMax>>
RedClear == <<ByteMax, 0, 0, 0>>
HalfRed == <<128, 0, 0, ByteMax>>
Green == <<0, ByteMax, 0, ByteMax>>
FileColors == {Red, RedClear, HalfRed}

\* The wedges of a file: wedge k on the given point, with UV (k, k + 1) tenths
WedgesOn(point_indices) ==
    [k \in 0..(Len(point_indices) - 1) |->
        [point_index |-> point_indices[k + 1], u |-> k, v |-> k + 1]]

\* The mesh part of a PSK file
MeshFile(point_count, point_indices, faces, colors, extra_channels) ==
    [ point_count |-> point_count,
      materials |-> <<"skin">>,
      weights |-> {0},
      wedges |-> WedgesOn(point_indices),
      faces |-> [f \in 0..(Len(faces) - 1) |->
                    [wedge_indices |-> faces[f + 1], material_index |-> 0]],
      has_vertex_colors |-> colors # <<>>,
      vertex_colors |-> [k \in 0..(Len(colors) - 1) |-> colors[k + 1]],
      has_extra_uvs |-> extra_channels > 0,
      extra_uvs |-> [k \in 0..(extra_channels * Len(point_indices) - 1) |->
                        <<k + 2, k + 3>>] ]

\* One triangle on three points, each wedge with a colour
TriangleFile ==
    MeshFile(3, <<0, 1, 2>>, << <<0, 1, 2>> >>, <<Red, Green, Red>>, 0)

\* import_psk has built no mesh yet
MeshEmpty ==
    /\ bm_faces = <<>>
    /\ degenerate_face_indices = {}
    /\ uv_layers = <<>>
    /\ vertex_colors = <<>>
    /\ ambiguous_vertex_color_point_indices = <<>>
    /\ vertex_color_data = <<>>
    /\ warnings = [degenerate |-> 0, ambiguous |-> 0]

\* scene.psk_export before the export operator is first invoked: an empty
\* collection and the index 0
ExportIdle ==
    /\ material_list = <<>>
    /\ material_list_index = 0
    /\ export_result = "none"

PsaIdle ==
    /\ psa_bones = <<>>
    /\ armature = <<>>
    /\ should_clean_keys = TRUE
    /\ requested_epsilon = Threshold
    /\ sequences_left = 0
    /\ sequence_names = <<>>
    /\ psa_error = "none"
    /\ psa_to_armature_bone_indices = <<>>
    /\ missing_bone_names = {}
    /\ psa_import_bones = <<>>
    /\ psa_keys = <<>>
    /\ sequence_data_matrix = <<>>
    /\ keyframe_write_matrix = <<>>
    /\ fcurves = {}
    /\ keyframes = {}
    /\ actions = 0
    /\ psa_pc = "idle"

InitPsk ==
    /\ \E array \in PskBoneArrays : psk_bones = PskFile(array)
    /\ psk_import_bones = <<>>
    /\ edit_bones = <<>>
    /\ bpy_data = {}
    /\ scene_objects = {}
    /\ psk_error = "none"
    /\ psk_pc = "start"
    /\ psk_mesh = TriangleFile
    /\ psk_options = DefaultOptions
    /\ MeshEmpty
    /\ PsaIdle
    /\ ExportIdle

SpecPsk == InitPsk /\ [][PskNext]_vars

\* Wedge tables of a file: four wedges on four points, or on three with two
\* wedges sharing a point
WedgeTables == { <<0, 1, 2, 3>>, <<0, 1, 2, 0>>, <<0, 1, 1, 2>> }

PointCount(point_indices) ==
    Cardinality({point_indices[k] : k \in 1..Len(point_indices)})

\* Wedge triples of a face: in order, reversed and rotated, on other wedges of
\* the same points, and with a wedge twice
FaceTriples ==
    { <<0, 1, 2>>, <<2, 1, 0>>, <<1, 2, 0>>, <<0, 1, 3>>, <<1, 2, 3>>, <<0, 2, 3>>,
      <<0, 0, 1>> }

FaceLists == UNION { [1..n -> FaceTriples] : n \in 1..MaxFaces }

\* One skeleton, every mesh of up to MaxFaces faces, with and without a channel
\* of extra UVs
InitFaces ==
    /\ psk_bones = RigBones
    /\ psk_import_bones = <<>>
    /\ edit_bones = <<>>
    /\ bpy_data = {}
    /\ scene_objects = {}
    /\ psk_error = "none"
    /\ psk_pc = "start"
    /\ \E point_indices \in WedgeTables : \E faces \in FaceLists :
       \E extra_channels \in {0, 1} :
         psk_mesh = MeshFile(PointCount(point_indices), point_indices, faces,
                             <<>>, extra_channels)
    /\ psk_options \in {o \in MeshOptions : o = [DefaultOptions EXCEPT
                            !.should_import_extra_uvs = o.should_import_extra_uvs]}
    /\ MeshEmpty
    /\ PsaIdle
    /\ ExportIdle

SpecFaces == InitFaces /\ [][PskNext]_vars

\* Wedge tables: a wedge on each of three points, then n further wedges on any
\* of them, each wedge with a colour
ColoredWedges(n) ==
    { [k \in 1..(3 + n) |->
          <<IF k <= 3 THEN k - 1 ELSE points[k - 3], colors[k]>>] :
      points \in [1..n -> 0..2], colors \in [1..(3 + n) -> FileColors] }

ColorOptions ==
    { [DefaultOptions EXCEPT !.vertex_color_space = "LINEAR"],
      DefaultOptions,
      [DefaultOptions EXCEPT !.should_import_vertex_colors = FALSE] }

InitColors ==
    /\ psk_bones = RigBones
    /\ psk_import_bones = <<>>
    /\ edit_bones = <<>>
    /\ bpy_data = {}
    /\ scene_objects = {}
    /\ psk_error = "none"
    /\ psk_pc = "start"
    /\ \E n \in 0..MaxSharedWedges : \E wedges \in ColoredWedges(n) :
         psk_mesh = MeshFile(3, [k \in 1..Len(wedges) |-> wedges[k][1]],
                             << <<0, 1, 2>> >>,
                             [k \in 1..Len(wedges) |-> wedges[k][2]], 0)
    /\ psk_options \in ColorOptions
    /\ MeshEmpty
    /\ PsaIdle
    /\ ExportIdle

SpecColors == InitColors /\ [][PskNext]_vars

\* ------------------------------------------------------------------------
\* import_psa

\* 0-based list from a tuple
ZeroBased(seq) == [i \in 0..(Len(seq) - 1) |-> seq[i + 1]]

Channels == 0..6

\* ImportBone.parent = None
NoParent == ""

\* armature_data.bones after import_psk: the edit bones become bones, matrix_local
\* is the matrix given to the edit bone, the custom properties are kept
ArmatureOf(ebs, cached) ==
    [i \in 0..(Len(ebs) - 1) |->
        [ name |-> ebs[i + 1].name,
          parent |-> ebs[i + 1].parent,
          matrix_local |-> ebs[i + 1].matrix,
          has_orig_quat |-> cached /\ ebs[i + 1].has_props,
          orig_quat |-> ebs[i + 1].orig_quat,
          orig_loc |-> ebs[i + 1].orig_loc,
          post_quat |-> ebs[i + 1].post_quat ]]

\* import_psk run to its end on a bone array (lines 66-110)
ImportedEditBones(bones) ==
    LET clamped == ClampParents(bones)
        second == SecondPass(FirstPass(bones), clamped)
    IN  ThirdPass(second.import_bones, clamped).edit_bones

\* Mutant of PsaToArmatureBoneIndices: names are matched without regard to case
FoldCase(name) == IF name = "Spine" THEN "spine" ELSE name

PsaToArmatureBoneIndices_FoldCase(bones, arm) ==
    [i \in {k \in DOMAIN bones :
               \E j \in DOMAIN arm : FoldCase(arm[j].name) = FoldCase(bones[k])} |->
        CHOOSE j \in DOMAIN arm :
            /\ FoldCase(arm[j].name) = FoldCase(bones[i])
            /\ \A k \in DOMAIN arm :
                 FoldCase(arm[k].name) = FoldCase(bones[i]) => j <= k]

\* Lines 59-67: psa_to_armature_bone_indices; list.index gives the first match
PsaToArmatureBoneIndices(bones, arm) ==
    [i \in {k \in DOMAIN bones : \E j \in DOMAIN arm : arm[j].name = bones[k]} |->
        CHOOSE j \in DOMAIN arm :
            /\ arm[j].name = bones[i]
            /\ \A k \in DOMAIN arm : arm[k].name = bones[i] => j <= k]

\* Line 70: missing_bone_names
MissingBoneNames(bones, arm) ==
    {bones[i] : i \in DOMAIN bones} \ {arm[j].name : j \in DOMAIN arm}

\* import_bones.append(None)
NoneBone ==
    [ none |-> TRUE, name |-> "", armature_bone |-> NoParentIndex, parent |-> NoParent,
      orig_loc |-> ZeroVector, orig_quat |-> QIdentity, post_quat |-> QIdentity ]

\* Line 94-95: import_bone.parent
ImportParent(armature_bone, arm, bones) ==
    IF /\ armature_bone.parent # NoParentIndex
       /\ arm[armature_bone.parent].name \in {bones[i] : i \in DOMAIN bones}
    THEN arm[armature_bone.parent].name
    ELSE NoParent

\* Lines 104-111: the bind pose recomputed from the rig's matrix_local
RecomputedBind(armature_bone, arm, parent) ==
    IF parent # NoParent
    THEN LET parent_local == arm[armature_bone.parent].matrix_local
             parent_quat == Conj(MatToQuat(parent_local.rot))
         IN  [ orig_loc |-> VRotate(VSub(armature_bone.matrix_local.translation,
                                         parent_local.translation), parent_quat),
               orig_quat |-> Conj(QRotate(MatToQuat(armature_bone.matrix_local.rot),
                                          parent_quat)) ]
    ELSE [ orig_loc |-> armature_bone.matrix_local.translation,
           orig_quat |-> MatToQuat(armature_bone.matrix_local.rot) ]

\* Mutant of NewPsaImportBone: the bind pose is always recomputed from the rig
NewPsaImportBone_Recomputed(name, armature_index, arm, bones) ==
    LET armature_bone == arm[armature_index]
        parent == ImportParent(armature_bone, arm, bones)
        bind == RecomputedBind(armature_bone, arm, parent)
    IN  [ none |-> FALSE, name |-> name, armature_bone |-> armature_index,
          parent |-> parent,
          orig_loc |-> bind.orig_loc,
          orig_quat |-> bind.orig_quat,
          post_quat |-> Conj(bind.orig_quat) ]

\* Lines 86-112 for one mapped bone
NewPsaImportBone(name, armature_index, arm, bones) ==
    LET armature_bone == arm[armature_index]
        parent == ImportParent(armature_bone, arm, bones)
        bind == RecomputedBind(armature_bone, arm, parent)
    IN  IF armature_bone.has_orig_quat
        THEN [ none |-> FALSE, name |-> name, armature_bone |-> armature_index,
               parent |-> parent,
               orig_loc |-> armature_bone.orig_loc,
               orig_quat |-> armature_bone.orig_quat,
               post_quat |-> armature_bone.post_quat ]
        ELSE [ none |-> FALSE, name |-> name, armature_bone |-> armature_index,
               parent |-> parent,
               orig_loc |-> bind.orig_loc,
               orig_quat |-> bind.orig_quat,
               post_quat |-> Conj(bind.orig_quat) ]

\* Lines 76-112: import_bones, None in the place of every unmapped PSA bone
PsaImportBones(bones, arm) ==
    LET indices == PsaToArmatureBoneIndices(bones, arm)
    IN  [i \in DOMAIN bones |->
            IF i \notin DOMAIN indices
            THEN NoneBone
            ELSE NewPsaImportBone(bones[i], indices[i], arm, bones)]

\* A sample of the matrix: channels 0..3 rotation (w,x,y,z), 4..6 location
KeyData(rotation, location) ==
    [c \in Channels |-> IF c < 4 THEN rotation[c + 1] * Half ELSE location[c - 3]]

\* Quaternion(key_data[0:4]) and Vector(key_data[4:])
KeyRotation(key_data) ==
    <<key_data[0] \div Half, key_data[1] \div Half, key_data[2] \div Half,
      key_data[3] \div Half>>
KeyLocation(key_data) == <<key_data[4], key_data[5], key_data[6]>>

\* Lines 47-51: q, from post_quat and the key rotation
KeyQuat(import_bone, key_rotation) ==
    IF import_bone.parent = NoParent
    THEN QRotate(import_bone.post_quat, Conj(key_rotation))
    ELSE QRotate(import_bone.post_quat, key_rotation)

\* Lines 40-55
calculate_fcurve_data(import_bone, key_data) ==
    LET key_rotation == KeyRotation(key_data)
        key_location == KeyLocation(key_data)
        quat0 == QRotate(import_bone.post_quat, import_bone.orig_quat)
        q == KeyQuat(import_bone, key_rotation)
        quat == QRotate(quat0, Conj(q))
        loc == VRotate(VSub(key_location, import_bone.orig_loc),
                       Conj(import_bone.post_quat))
    IN  KeyData(quat, loc)

\* Lines 144-151: every sample of every mapped bone, in place
ConvertMatrix(matrix, import_bones) ==
    [f \in DOMAIN matrix |-> [b \in DOMAIN matrix[f] |->
        IF import_bones[b].none
        THEN matrix[f][b]
        ELSE calculate_fcurve_data(import_bones[b], matrix[f][b])]]

\* Mutants of ShouldDrop: the difference taken without abs; the comparison inverted
ShouldDrop_NoAbs(frame_index, datum, last_written_datum) ==
    frame_index > 0 /\ datum - last_written_datum < Threshold

ShouldDrop_Inverted(frame_index, datum, last_written_datum) ==
    frame_index > 0 /\ Abs(datum - last_written_datum) >= Threshold

\* Line 166: the datum is not different enough from the last written one
ShouldDrop(frame_index, datum, last_written_datum) ==
    frame_index > 0 /\ Abs(datum - last_written_datum) < Threshold

\* Mutant of LastWritten: every frame is compared with frame 0
LastWritten_FirstFrame(frame_index, datum, last_written_datum) ==
    IF frame_index = 0 THEN datum ELSE last_written_datum

\* Line 169: the last written datum after a frame that is kept
LastWritten(frame_index, datum, last_written_datum) == datum

\* Lines 163-169 from frame_index on: the frames un-marked for writing
RECURSIVE CleanFrom(_, _, _)
CleanFrom(fcurve_frame_data, frame_index, last_written_datum) ==
    IF frame_index \notin DOMAIN fcurve_frame_data
    THEN {}
    ELSE IF ShouldDrop(frame_index, fcurve_frame_data[frame_index], last_written_datum)
    THEN {frame_index}
         \cup CleanFrom(fcurve_frame_data, frame_index + 1, last_written_datum)
    ELSE CleanFrom(fcurve_frame_data, frame_index + 1,
                   LastWritten(frame_index, fcurve_frame_data[frame_index],
                               last_written_datum))

\* Mutant of FCurveFrameData: the slice of the neighbouring f-curve
FCurveFrameData_Neighbour(matrix, bone_index, fcurve_index) ==
    [f \in DOMAIN matrix |-> matrix[f][bone_index][(fcurve_index + 1) % 7]]

\* Line 162: sequence_data_matrix[:, bone_index, fcurve_index]
FCurveFrameData(matrix, bone_index, fcurve_index) ==
    [f \in DOMAIN matrix |-> matrix[f][bone_index][fcurve_index]]

\* Line 167: the entries zeroed for the frames of one f-curve that are dropped
Unmark(write_matrix, dropped, bone_index, fcurve_index) ==
    [f \in DOMAIN write_matrix |->
        IF f \in dropped
        THEN [write_matrix[f] EXCEPT ![bone_index][fcurve_index] = 0]
        ELSE write_matrix[f]]

\* Lines 160-169 for one bone, f-curves from fcurve_index on
RECURSIVE CleanBoneFrom(_, _, _, _)
CleanBoneFrom(write_matrix, matrix, bone_index, fcurve_index) ==
    IF fcurve_index \notin Channels
    THEN write_matrix
    ELSE CleanBoneFrom(
             Unmark(write_matrix,
                    CleanFrom(FCurveFrameData(matrix, bone_index, fcurve_index), 0, 0),
                    bone_index, fcurve_index),
             matrix, bone_index, fcurve_index + 1)

\* Lines 157-169, bones from bone_index on
RECURSIVE CleanBonesFrom(_, _, _, _)
CleanBonesFrom(write_matrix, matrix, import_bones, bone_index) ==
    IF bone_index \notin DOMAIN import_bones
    THEN write_matrix
    ELSE CleanBonesFrom(
             IF import_bones[bone_index].none
             THEN write_matrix
             ELSE CleanBoneFrom(write_matrix, matrix, bone_index, 0),
             matrix, import_bones, bone_index + 1)

\* Mutant of CleanKeys: the enablement flag is not looked at
CleanKeys_Always(write_matrix, matrix, import_bones, clean) ==
    CleanBonesFrom(write_matrix, matrix, import_bones, 0)

\* Lines 155-169
CleanKeys(write_matrix, matrix, import_bones, clean) ==
    IF clean
    THEN CleanBonesFrom(write_matrix, matrix, import_bones, 0)
    ELSE write_matrix

\* Line 141: np.ones(sequence_data_matrix.shape)
Ones(matrix) ==
    [f \in DOMAIN matrix |-> [b \in DOMAIN matrix[f] |-> [c \in Channels |-> 1]]]

\* Lines 122-135: seven f-curves for every mapped bone
NewFCurves(bones, indices) ==
    {<<bones[i], c>> : i \in DOMAIN indices, c \in Channels}

\* Mutant of WrittenKeyframes: every channel of a bone is written in a frame
\* where any of its channels is marked
WrittenKeyframes_AnyChannel(matrix, write_matrix, import_bones) ==
    {<<import_bones[t[2]].name, t[3], t[1], matrix[t[1]][t[2]][t[3]]>> :
        t \in {u \in (DOMAIN matrix) \X (DOMAIN import_bones) \X Channels :
                  /\ ~import_bones[u[2]].none
                  /\ \E c \in Channels : write_matrix[u[1]][u[2]][c] # 0}}

\* Lines 172-182: the keyframe points inserted
WrittenKeyframes(matrix, write_matrix, import_bones) ==
    {<<import_bones[t[2]].name, t[3], t[1], matrix[t[1]][t[2]][t[3]]>> :
        t \in {u \in (DOMAIN matrix) \X (DOMAIN import_bones) \X Channels :
                  /\ ~import_bones[u[2]].none
                  /\ write_matrix[u[1]][u[2]][u[3]] # 0}}

\* Lines 60-63 and 81: psa_bone_names, every name field decoded
PsaBoneNames(bones) ==
    [i \in DOMAIN bones |-> decode_windows_1252(bones[i])]

\* Lines 57-112: bone mapping and the import bones; a bone name that
\* windows-1252 cannot decode ends the import before any bone is mapped
BuildImportBones ==
    /\ psa_pc = "start"
    /\ LET psa_bone_names == PsaBoneNames(psa_bones)
       IN  IF \E i \in DOMAIN psa_bones : psa_bone_names[i] = DecodeError
           THEN /\ psa_error' = DecodeError
                /\ psa_pc' = "raised"
                /\ UNCHANGED <<psa_to_armature_bone_indices, missing_bone_names,
                               psa_import_bones>>
           ELSE /\ psa_to_armature_bone_indices' =
                      PsaToArmatureBoneIndices(psa_bone_names, armature)
                /\ missing_bone_names' = MissingBoneNames(psa_bone_names, armature)
                /\ psa_import_bones' = PsaImportBones(psa_bone_names, armature)
                /\ psa_pc' = "ready"
                /\ UNCHANGED psa_error
    /\ UNCHANGED <<psa_bones, sequence_names, armature, should_clean_keys,
                   requested_epsilon,
                   sequences_left, psa_keys, sequence_data_matrix,
                   keyframe_write_matrix, fcurves, keyframes, actions, psk_vars, export_vars>>

\* The samples a file may hold for one bone in one frame
Samples ==
    { KeyData(QIdentity, <<0, 0, 0>>),
      KeyData(QA, <<1, 0, 0>>),
      KeyData(QIdentity, <<2, 0, 0>>) }

\* The key tables of a sequence of frame_count frames over the file's bones
SequenceData(frame_count, bones) ==
    [0..(frame_count - 1) -> [DOMAIN bones -> Samples]]

\* Lines 116-141: the next requested sequence: a new action, its f-curves, the
\* data matrix read from the file and the write matrix of ones. The action is
\* named by sequence.name.decode(), which raises before anything is created
\* when the name is not UTF-8; the sequence is then looked up by
\* sequence.name.decode('windows-1252'), which raises with the action and its
\* f-curves created
ReadSequence ==
    /\ psa_pc = "ready"
    /\ sequences_left > 0
    /\ IF decode_utf8(Head(sequence_names)) = DecodeError
       THEN /\ psa_error' = DecodeError
            /\ psa_pc' = "raised"
            /\ UNCHANGED <<psa_keys, sequence_data_matrix, keyframe_write_matrix,
                           fcurves, keyframes>>
       ELSE
       IF decode_windows_1252(Head(sequence_names)) = DecodeError
       THEN /\ psa_error' = DecodeError
            /\ psa_pc' = "raised"
            /\ fcurves' = NewFCurves(PsaBoneNames(psa_bones),
                                     psa_to_armature_bone_indices)
            /\ UNCHANGED <<psa_keys, sequence_data_matrix, keyframe_write_matrix,
                           keyframes>>
       ELSE
       /\ \E frame_count \in 1..MaxFrames :
            \E data \in SequenceData(frame_count, psa_bones) :
               /\ psa_keys' = data
               /\ sequence_data_matrix' = data
               /\ keyframe_write_matrix' = Ones(data)
       /\ fcurves' = NewFCurves(PsaBoneNames(psa_bones), psa_to_armature_bone_indices)
       /\ keyframes' = {}
       /\ psa_pc' = "read"
       /\ UNCHANGED psa_error
    /\ UNCHANGED <<psa_bones, sequence_names, armature, should_clean_keys,
                   requested_epsilon,
                   sequences_left, psa_to_armature_bone_indices, missing_bone_names,
                   psa_import_bones, actions, psk_vars, export_vars>>

\* Mutant of ConvertSequence: post_quat is rotated in place, not a copy of it
ConvertSequence_InPlace ==
    /\ psa_pc = "read"
    /\ sequence_data_matrix' = ConvertMatrix(sequence_data_matrix, psa_import_bones)
    /\ psa_import_bones' =
          [b \in DOMAIN psa_import_bones |->
              IF psa_import_bones[b].none
              THEN psa_import_bones[b]
              ELSE [psa_import_bones[b] EXCEPT
                       !.post_quat = QRotate(@, psa_import_bones[b].orig_quat)]]
    /\ psa_pc' = "converted"
    /\ UNCHANGED <<psa_bones, sequence_names, psa_error, armature, should_clean_keys,
                   requested_epsilon,
                   sequences_left, psa_to_armature_bone_indices, missing_bone_names,
                   psa_keys, keyframe_write_matrix, fcurves,
                   keyframes, actions, psk_vars, export_vars>>

\* Lines 143-151
ConvertSequence ==
    /\ psa_pc = "read"
    /\ sequence_data_matrix' = ConvertMatrix(sequence_data_matrix, psa_import_bones)
    /\ psa_pc' = "converted"
    /\ UNCHANGED <<psa_bones, sequence_names, psa_error, armature, should_clean_keys,
                   requested_epsilon,
                   sequences_left, psa_to_armature_bone_indices, missing_bone_names,
                   psa_import_bones, psa_keys, keyframe_write_matrix, fcurves,
                   keyframes, actions, psk_vars, export_vars>>

\* Lines 153-169
CleanKeyframes ==
    /\ psa_pc = "converted"
    /\ keyframe_write_matrix' = CleanKeys(keyframe_write_matrix, sequence_data_matrix,
                                          psa_import_bones, should_clean_keys)
    /\ psa_pc' = "cleaned"
    /\ UNCHANGED <<psa_bones, sequence_names, psa_error, armature, should_clean_keys,
                   requested_epsilon,
                   sequences_left, psa_to_armature_bone_indices, missing_bone_names,
                   psa_import_bones, psa_keys, sequence_data_matrix, fcurves,
                   keyframes, actions, psk_vars, export_vars>>

\* Lines 171-182
WriteKeyframes ==
    /\ psa_pc = "cleaned"
    /\ keyframes' = WrittenKeyframes(sequence_data_matrix, keyframe_write_matrix,
                                     psa_import_bones)
    /\ psa_pc' = "written"
    /\ UNCHANGED <<psa_bones, sequence_names, psa_error, armature, should_clean_keys,
                   requested_epsilon,
                   sequences_left, psa_to_armature_bone_indices, missing_bone_names,
                   psa_import_bones, psa_keys, sequence_data_matrix,
                   keyframe_write_matrix, fcurves, actions, psk_vars, export_vars>>

\* Line 184, and back to line 116: the action is appended (the stored actions
\* are kept as a count); the matrices and f-curves of the sequence stay as they
\* are until the next sequence assigns them anew
AppendAction ==
    /\ psa_pc = "written"
    /\ actions' = actions + 1
    /\ sequences_left' = sequences_left - 1
    /\ sequence_names' = Tail(sequence_names)
    /\ psa_pc' = IF sequences_left > 1 THEN "ready" ELSE "done"
    /\ UNCHANGED <<psa_bones, psa_error, armature, should_clean_keys,
                   requested_epsilon,
                   psa_to_armature_bone_indices, missing_bone_names,
                   psa_import_bones, psa_keys, sequence_data_matrix,
                   keyframe_write_matrix, fcurves, keyframes, psk_vars, export_vars>>

PsaNext ==
    \/ BuildImportBones
    \/ ReadSequence
    \/ ConvertSequence
    \/ CleanKeyframes
    \/ WriteKeyframes
    \/ AppendAction

\* The rig the animations are imported onto: a root and its child, as import_psk
\* builds them
RigFile ==
    ZeroBased(<< [name |-> "root", parent_index |-> 0, rotation |-> QA,
                  location |-> <<0, 0, 0>>],
                 [name |-> "spine", parent_index |-> 0, rotation |-> QI,
                  location |-> <<0, One, 0>>] >>)

\* The rig with the bind pose import_psk cached on its bones, and without
TargetArmatures ==
    {ArmatureOf(ImportedEditBones(RigFile), cached) : cached \in BOOLEAN}

\* Bone tables of PSA files: in the rig's order and not, with bones the rig lacks
PsaBoneTables ==
    { ZeroBased(<<"root", "spine">>), ZeroBased(<<"spine", "root">>),
      ZeroBased(<<"Spine", "spine">>), ZeroBased(<<"root">>) }

PskIdle ==
    /\ psk_bones = <<>>
    /\ psk_import_bones = <<>>
    /\ edit_bones = <<>>
    /\ bpy_data = {}
    /\ scene_objects = {}
    /\ psk_error = "none"
    /\ psk_pc = "idle"
    /\ psk_mesh = TriangleFile
    /\ psk_options = DefaultOptions
    /\ MeshEmpty

\* import_psa is entered: nothing mapped, read or written yet
PsaEntered ==
    /\ psa_error = "none"
    /\ psa_to_armature_bone_indices = <<>>
    /\ missing_bone_names = {}
    /\ psa_import_bones = <<>>
    /\ psa_keys = <<>>
    /\ sequence_data_matrix = <<>>
    /\ keyframe_write_matrix = <<>>
    /\ fcurves = {}
    /\ keyframes = {}
    /\ actions = 0
    /\ psa_pc = "start"

InitPsa ==
    /\ psa_bones \in PsaBoneTables
    /\ armature \in TargetArmatures
    /\ should_clean_keys \in BOOLEAN
    /\ requested_epsilon = Threshold
    /\ sequences_left = 1
    /\ sequence_names = <<"idle">>
    /\ PsaEntered
    /\ PskIdle
    /\ ExportIdle

\* Callers that ask for an epsilon of their own, 0 or the default
InitEpsilon ==
    /\ psa_bones = ZeroBased(<<"root">>)
    /\ armature \in TargetArmatures
    /\ should_clean_keys \in BOOLEAN
    /\ requested_epsilon \in {0, Threshold}
    /\ sequences_left = 1
    /\ sequence_names = <<"idle">>
    /\ PsaEntered
    /\ PskIdle
    /\ ExportIdle

\* Lines 25-27: import_psa is called on the armature import_psk has built, with
\* or without the cached bind pose, for a PSA holding all of its bones or all but
\* the first
ImportOnto ==
    /\ psk_pc = "done"
    /\ psa_pc = "idle"
    /\ \E cached \in BOOLEAN : armature' = ArmatureOf(edit_bones, cached)
    /\ \E first \in {0, 1} :
         /\ first < Len(edit_bones)
         /\ psa_bones' = [i \in 0..(Len(edit_bones) - 1 - first) |->
                             edit_bones[i + 1 + first].name]
    /\ psa_pc' = "start"
    /\ UNCHANGED <<sequence_names, psa_error, should_clean_keys, requested_epsilon,
                   sequences_left,
                   psa_to_armature_bone_indices, missing_bone_names,
                   psa_import_bones, psa_keys, sequence_data_matrix,
                   keyframe_write_matrix, fcurves, keyframes, actions, psk_vars, export_vars>>

\* import_psk, then import_psa onto its armature up to the bind poses
RigNext ==
    \/ PskNext
    \/ ImportOnto
    \/ BuildImportBones

SpecRig == InitPsk /\ [][RigNext]_vars

\* armature_data.bones after import_psk when only the bones of cached_bones still
\* carry the custom properties
ArmatureWith(ebs, cached_bones) ==
    [i \in 0..(Len(ebs) - 1) |->
        [ArmatureOf(ebs, TRUE)[i] EXCEPT
            !.has_orig_quat = @ /\ i \in cached_bones]]

\* Lines 25-27: import_psa is called on the armature import_psk has built, any
\* of its bones with or without the cached bind pose, for a PSA holding all of
\* its bones or all but the first
ImportOntoSome ==
    /\ psk_pc = "done"
    /\ psa_pc = "idle"
    /\ \E cached_bones \in SUBSET (0..(Len(edit_bones) - 1)) :
         armature' = ArmatureWith(edit_bones, cached_bones)
    /\ \E first \in {0, 1} :
         /\ first < Len(edit_bones)
         /\ psa_bones' = [i \in 0..(Len(edit_bones) - 1 - first) |->
                             edit_bones[i + 1 + first].name]
    /\ psa_pc' = "start"
    /\ UNCHANGED <<sequence_names, psa_error, should_clean_keys, requested_epsilon,
                   sequences_left,
                   psa_to_armature_bone_indices, missing_bone_names,
                   psa_import_bones, psa_keys, sequence_data_matrix,
                   keyframe_write_matrix, fcurves, keyframes, actions, psk_vars, export_vars>>

\* import_psk, then import_psa onto its armature up to the bind poses
BindNext ==
    \/ PskNext
    \/ ImportOntoSome
    \/ BuildImportBones

SpecBind == InitPsk /\ [][BindNext]_vars

\* Name fields of a file: ASCII, a UTF-8 e-acute, a windows-1252 e-acute, the
\* UTF-8 form of U+0081, and the lone byte 0x81
NameFields == {"spine", "caf<C3><A9>", "caf<E9>", "bip<C2><81>", "bip<81>"}

\* A PSK file of a root and a bone on it, the second bone and the material with
\* any name field, and weights on one of the bones
InitNames ==
    /\ \E name \in NameFields :
         psk_bones = [RigBones EXCEPT ![1].name = name]
    /\ psk_import_bones = <<>>
    /\ edit_bones = <<>>
    /\ bpy_data = {}
    /\ scene_objects = {}
    /\ psk_error = "none"
    /\ psk_pc = "start"
    /\ \E name \in NameFields : \E bone_index \in DOMAIN RigBones :
         psk_mesh = [TriangleFile EXCEPT !.materials = <<name>>,
                                         !.weights = {bone_index}]
    /\ psk_options = DefaultOptions
    /\ MeshEmpty
    /\ PsaIdle
    /\ ExportIdle

\* Lines 25-27: import_psa is called on the armature import_psk has built, for a
\* PSA of one bone and one requested sequence, each with any name field
ImportNamed ==
    /\ psk_pc = "done"
    /\ psa_pc = "idle"
    /\ armature' = ArmatureOf(edit_bones, TRUE)
    /\ \E name \in NameFields : psa_bones' = ZeroBased(<<name>>)
    /\ \E name \in NameFields : sequence_names' = <<name>>
    /\ sequences_left' = 1
    /\ psa_pc' = "start"
    /\ UNCHANGED <<psa_error, should_clean_keys, requested_epsilon,
                   psa_to_armature_bone_indices, missing_bone_names,
                   psa_import_bones, psa_keys, sequence_data_matrix,
                   keyframe_write_matrix, fcurves, keyframes, actions, psk_vars, export_vars>>

\* import_psk, then import_psa onto its armature
NamesNext ==
    \/ PskNext
    \/ ImportNamed
    \/ PsaNext

SpecNames == InitNames /\ [][NamesNext]_vars

SpecPsa == InitPsa /\ [][PsaNext]_vars

SpecEpsilon == InitEpsilon /\ [][PsaNext]_vars

\* One file with both bones on the rig, cleaned
InitChannels ==
    /\ psa_bones = ZeroBased(<<"root", "spine">>)
    /\ armature = ArmatureOf(ImportedEditBones(RigFile), TRUE)
    /\ should_clean_keys = TRUE
    /\ requested_epsilon = Threshold
    /\ sequences_left = 1
    /\ sequence_names = <<"idle">>
    /\ PsaEntered
    /\ PskIdle
    /\ ExportIdle

SpecChannels == InitChannels /\ [][PsaNext]_vars

\* A PSA whose first bone the rig lacks, or a PSA of the rig's root alone
InitKeys ==
    /\ psa_bones \in {ZeroBased(<<"Spine", "spine">>), ZeroBased(<<"root">>)}
    /\ armature \in TargetArmatures
    /\ should_clean_keys \in BOOLEAN
    /\ requested_epsilon = Threshold
    /\ sequences_left = 1
    /\ sequence_names = <<"idle">>
    /\ PsaEntered
    /\ PskIdle
    /\ ExportIdle

SpecKeys == InitKeys /\ [][PsaNext]_vars

\* The most sequences one call of import_psa is asked for
MaxSequences == 2

\* Names of the sequences of a file
SequenceNames == <<"idle", "walk", "run">>

\* Line 26: the requested sequences, one or more, of a PSA with one bone
InitSequences ==
    /\ psa_bones \in {ZeroBased(<<"root">>), ZeroBased(<<"spine">>)}
    /\ armature \in TargetArmatures
    /\ should_clean_keys \in BOOLEAN
    /\ requested_epsilon = Threshold
    /\ sequences_left \in 1..MaxSequences
    /\ sequence_names = SubSeq(SequenceNames, 1, sequences_left)
    /\ PsaEntered
    /\ PskIdle
    /\ ExportIdle

SpecSequences == InitSequences /\ [][PsaNext]_vars

\* ------------------------------------------------------------------------
\* The PSK export operators

\* material_slot.material of an empty slot
NoMaterial == "None"

Materials == {"skin", "eyes", "hair"}

\* The most material slots of a mesh object
MaxSlots == 2

\* mesh_object.material_slots of a mesh object
SlotLists(n) == [1..n -> Materials \cup {NoMaterial}]

\* Lines 23-31: the materials from slot i of object o on, each once in the order
\* first seen; an empty slot raises RuntimeError
RECURSIVE CollectMaterials(_, _, _, _)
CollectMaterials(mesh_objects, o, i, materials) ==
    IF o > Len(mesh_objects)
    THEN [materials |-> materials, error |-> "none"]
    ELSE IF i > Len(mesh_objects[o])
    THEN CollectMaterials(mesh_objects, o + 1, 1, materials)
    ELSE IF mesh_objects[o][i] = NoMaterial
    THEN [materials |-> materials, error |-> "RuntimeError"]
    ELSE CollectMaterials(mesh_objects, o, i + 1,
             IF \E k \in 1..Len(materials) : materials[k] = mesh_objects[o][i]
             THEN materials
             ELSE Append(materials, mesh_objects[o][i]))

\* Lines 20-36: the list is cleared, then filled with one item per material;
\* when a slot is empty it is left cleared
populate_material_list(mesh_objects) ==
    LET collected == CollectMaterials(mesh_objects, 1, 1, <<>>)
    IN  IF collected.error # "none"
        THEN [material_list |-> <<>>, error |-> collected.error]
        ELSE [material_list |->
                 [k \in 1..Len(collected.materials) |->
                     [material |-> collected.materials[k], index |-> k - 1]],
              error |-> "none"]

\* key and pos are items of the collection
MoveInRange(list, key, pos) ==
    /\ key \in 0..(Len(list) - 1)
    /\ pos \in 0..(Len(list) - 1)

\* material_list.move(key, pos) on items of the collection: the item at key is
\* taken out and put in at pos
CollectionMove(list, key, pos) ==
    [k \in 1..Len(list) |->
        IF k - 1 = pos THEN list[key + 1]
        ELSE IF key < pos /\ key <= k - 1 /\ k - 1 < pos THEN list[k + 1]
        ELSE IF pos < key /\ pos < k - 1 /\ k - 1 <= key THEN list[k - 1]
        ELSE list[k]]

\* Lines 88-105: PSK_OT_export.invoke fills the material list from the mesh
\* objects of the selection, here two objects of up to MaxSlots slots each;
\* material_list_index is not assigned
PSK_OT_export_invoke ==
    /\ \E n1 \in 0..MaxSlots : \E n2 \in 0..MaxSlots :
       \E slots1 \in SlotLists(n1) : \E slots2 \in SlotLists(n2) :
          LET populated == populate_material_list(<<slots1, slots2>>)
          IN  /\ material_list' = populated.material_list
              /\ export_result' = IF populated.error = "none"
                                  THEN "RUNNING_MODAL"
                                  ELSE "CANCELLED"
    /\ UNCHANGED <<material_list_index, psk_vars, psa_vars>>

\* The outcomes of material_list.move when key or pos is no item of the
\* collection: the call is ignored, or it raises
MoveOutcomes == {"ignored", "raised"}

\* Lines 45-54 with delta -1 and lines 63-72 with delta 1: execute, once poll
\* has allowed it
MoveSelected(delta) ==
    IF MoveInRange(material_list, material_list_index, material_list_index + delta)
    THEN /\ material_list' = CollectionMove(material_list, material_list_index,
                                            material_list_index + delta)
         /\ material_list_index' = material_list_index + delta
         /\ export_result' = "FINISHED"
    ELSE \E outcome \in MoveOutcomes :
            /\ material_list' = material_list
            /\ material_list_index' = IF outcome = "ignored"
                                      THEN material_list_index + delta
                                      ELSE material_list_index
            /\ export_result' = IF outcome = "ignored" THEN "FINISHED" ELSE "TypeError"

\* Lines 39-54
PSK_OT_material_list_move_up ==
    /\ material_list_index > 0
    /\ MoveSelected(0 - 1)
    /\ UNCHANGED <<psk_vars, psa_vars>>

\* Lines 57-72
PSK_OT_material_list_move_down ==
    /\ material_list_index < Len(material_list) - 1
    /\ MoveSelected(1)
    /\ UNCHANGED <<psk_vars, psa_vars>>

ExportNext ==
    \/ PSK_OT_export_invoke
    \/ PSK_OT_material_list_move_up
    \/ PSK_OT_material_list_move_down

InitExport ==
    /\ PskIdle
    /\ PsaIdle
    /\ ExportIdle

SpecExport == InitExport /\ [][ExportNext]_vars

\* ------------------------------------------------------------------------
\* Properties of the keyframe cleaning

MappedBones == {b \in DOMAIN psa_import_bones : ~psa_import_bones[b].none}

Frames == DOMAIN sequence_data_matrix

\* The write matrix is final
KeysDecided == psa_pc \in {"cleaned", "written"}

\* Cleaning has run on the sequence
KeysCleaned == KeysDecided /\ should_clean_keys

Kept(f, b, c) == keyframe_write_matrix[f][b][c] # 0

Value(f, b, c) == sequence_data_matrix[f][b][c]

\* j is the most recent frame before i that is marked kept in the channel
IsLastKept(j, i, b, c) ==
    /\ j < i
    /\ Kept(j, b, c)
    /\ \A k \in Frames : (j < k /\ k < i) => ~Kept(k, b, c)

\* C1: after cleaning, in every channel of every mapped bone frame 0 is kept, and
\* a frame i > 0 is kept exactly when its value differs by at least the threshold
\* from the value of the most recent kept frame before it.
C1_KeepRule ==
    KeysCleaned =>
        \A b \in MappedBones : \A c \in Channels :
            /\ Kept(0, b, c)
            /\ \A i \in Frames \ {0} :
                 \E j \in Frames :
                    /\ IsLastKept(j, i, b, c)
                    /\ Kept(i, b, c) <=> Abs(Value(i, b, c) - Value(j, b, c)) >= Threshold

\* A frame is kept after a dropped one that it differs from by less than the
\* threshold: it was compared with the last kept frame, two frames back.
C1_Witness ==
    /\ KeysCleaned
    /\ \E b \in MappedBones : \E c \in Channels : \E i \in Frames :
         /\ i >= 2
         /\ Kept(i, b, c)
         /\ ~Kept(i - 1, b, c)
         /\ Abs(Value(i, b, c) - Value(i - 1, b, c)) < Threshold
         /\ Abs(Value(i, b, c) - Value(i - 2, b, c)) >= Threshold

\* C2: after cleaning, two consecutive kept frames i < j of a channel differ by at
\* least the threshold, or j is the last frame of the sequence.
C2_ConsecutiveKept ==
    KeysCleaned =>
        \A b \in MappedBones : \A c \in Channels : \A i \in Frames : \A j \in Frames :
            (IsLastKept(i, j, b, c) /\ Kept(j, b, c)) =>
                \/ Abs(Value(j, b, c) - Value(i, b, c)) >= Threshold
                \/ \A k \in Frames : k <= j

\* Two consecutive kept frames, the later not the last frame, and a dropped frame
\* in the same channel.
C2_Witness ==
    /\ KeysCleaned
    /\ \E b \in MappedBones : \E c \in Channels : \E j \in Frames :
         /\ j > 0
         /\ Kept(j - 1, b, c)
         /\ Kept(j, b, c)
         /\ (j + 1) \in Frames
         /\ ~Kept(j + 1, b, c)

\* C5: a 3-frame channel with values v0, v1, v0 and |v1 - v0| >= threshold keeps
\* all three frames.
C5_RevertKept ==
    (KeysCleaned /\ Frames = 0..2) =>
        \A b \in MappedBones : \A c \in Channels :
            ( /\ Value(2, b, c) = Value(0, b, c)
              /\ Abs(Value(1, b, c) - Value(0, b, c)) >= Threshold ) =>
                (Kept(0, b, c) /\ Kept(1, b, c) /\ Kept(2, b, c))

\* Such a channel exists, and its last frame is kept.
C5_Witness ==
    /\ KeysCleaned
    /\ Frames = 0..2
    /\ \E b \in MappedBones : \E c \in Channels :
         /\ Value(2, b, c) = Value(0, b, c)
         /\ Abs(Value(1, b, c) - Value(0, b, c)) >= Threshold
         /\ Kept(2, b, c)

AllKept ==
    \A f \in Frames : \A b \in DOMAIN psa_import_bones : \A c \in Channels : Kept(f, b, c)

\* C3 as stated: epsilon is an input of the compressor, and a run with epsilon = 0
\* keeps every frame of every channel.
C3_EpsilonZeroKeepsAll ==
    (KeysCleaned /\ requested_epsilon = 0) => AllKept

\* C3, amended: the threshold is fixed, whatever epsilon the caller wants.  With
\* cleaning disabled every frame of every channel is kept; with cleaning enabled
\* a frame i > 0 whose value equals the value of the frame before it is dropped.
C3_FixedThreshold ==
    KeysDecided =>
        /\ ~should_clean_keys => AllKept
        /\ should_clean_keys =>
             \A b \in MappedBones : \A c \in Channels : \A i \in Frames \ {0} :
                 Value(i, b, c) = Value(i - 1, b, c) => ~Kept(i, b, c)

\* A caller wanting epsilon 0 has a repeated value dropped; reached with cleaning
\* enabled, and the same file keeps everything with cleaning disabled.
C3_Witness ==
    /\ KeysDecided
    /\ requested_epsilon = 0
    /\ \E b \in MappedBones : \E c \in Channels : \E i \in Frames \ {0} :
         /\ Value(i, b, c) = Value(i - 1, b, c)
         /\ ~Kept(i, b, c)

\* The matrix with one entry moved
Perturbed(matrix, f, b, c, delta) == [matrix EXCEPT ![f][b][c] = @ + delta]

\* The write matrix the cleaning gives a matrix
Cleaned(matrix) == CleanKeys(Ones(matrix), matrix, psa_import_bones, TRUE)

\* C4: the decision for (frame, bone, channel) depends only on the values of that
\* bone's channel at frames 0..frame: changing any other entry of the converted
\* matrix (another bone, another channel, a later frame) leaves it as it is.
C4_ChannelIndependence ==
    (psa_pc = "cleaned" /\ should_clean_keys) =>
        \A f2 \in Frames : \A b2 \in MappedBones : \A c2 \in Channels :
        \A delta \in {Threshold} :
        \A other \in {Cleaned(Perturbed(sequence_data_matrix, f2, b2, c2, delta))} :
            \A f \in Frames : \A b \in MappedBones : \A c \in Channels :
                (b # b2 \/ c # c2 \/ f < f2) =>
                    other[f][b][c] = keyframe_write_matrix[f][b][c]

\* In one frame a bone has a rotation channel kept and a translation channel
\* dropped, and another bone has all its channels dropped in that frame.
C4_Witness ==
    /\ KeysCleaned
    /\ \E f \in Frames : \E b \in MappedBones :
         /\ \E c \in 0..3 : Kept(f, b, c)
         /\ \E c \in 4..6 : ~Kept(f, b, c)
         /\ \E b2 \in MappedBones : b2 # b /\ \A c \in Channels : ~Kept(f, b2, c)

\* ------------------------------------------------------------------------
\* Properties of the bone mapping and the conversion

\* import_psa has mapped the bones
BonesMapped == psa_pc \in {"ready", "read", "converted", "cleaned", "written", "done"}

\* The sequence's matrix has been read
SequenceRead == psa_pc \in {"read", "converted", "cleaned", "written"}

\* The sequence's matrix has been converted
SequenceConverted == psa_pc \in {"converted", "cleaned", "written"}

\* The PSA bone's name is a bone name of the target armature
NameInArmature(i) == \E j \in DOMAIN armature : armature[j].name = psa_bones[i]

\* The PSA bones whose names the armature has, in the file's order
NamedBones == {i \in DOMAIN psa_bones : NameInArmature(i)}
Rank(i) == Cardinality({k \in NamedBones : k < i})
RankedBones ==
    [r \in 0..(Cardinality(NamedBones) - 1) |-> CHOOSE i \in NamedBones : Rank(i) = r]

\* The file without the bones the armature lacks: bone table and key table
ReducedBones(ranked) == [r \in DOMAIN ranked |-> psa_bones[ranked[r]]]
ReducedKeys(ranked) ==
    [f \in DOMAIN psa_keys |-> [r \in DOMAIN ranked |-> psa_keys[f][ranked[r]]]]

\* The samples, marks and keyframes of the bones the armature has are those
\* import_psa computes for the reduced file
SameAsReduced(ranked, import_bones, matrix) ==
    /\ \A r \in DOMAIN ranked : \A f \in Frames :
          sequence_data_matrix[f][ranked[r]] = matrix[f][r]
    /\ \A write_matrix \in {CleanKeys(Ones(matrix), matrix, import_bones,
                                      should_clean_keys)} :
          /\ \A r \in DOMAIN ranked : \A f \in Frames :
                keyframe_write_matrix[f][ranked[r]] = write_matrix[f][r]
          /\ keyframes = WrittenKeyframes(matrix, write_matrix, import_bones)

\* C6: a PSA bone is unmapped (and reported missing) exactly when its name is not
\* a bone name of the armature; an unmapped bone gets no f-curve and no keyframe
\* and its samples stay as read; the mapped bones are converted, marked and
\* written as they are for the file without the unmapped bones (compared once
\* the sequence is written, when samples, marks and keyframes are final).
C6_UnmappedSkipped ==
    /\ BonesMapped =>
         \A i \in DOMAIN psa_bones :
            /\ (psa_bones[i] \in missing_bone_names) <=> ~NameInArmature(i)
            /\ psa_import_bones[i].none <=> ~NameInArmature(i)
            /\ (i \in DOMAIN psa_to_armature_bone_indices) <=> NameInArmature(i)
    /\ SequenceRead =>
         \A i \in DOMAIN psa_bones \ NamedBones :
            /\ \A c \in Channels : <<psa_bones[i], c>> \notin fcurves
            /\ \A k \in keyframes : k[1] # psa_bones[i]
            /\ \A f \in Frames : sequence_data_matrix[f][i] = psa_keys[f][i]
    /\ SequenceRead =>
         \A reduced \in {ReducedBones(RankedBones)} :
            fcurves = NewFCurves(reduced, PsaToArmatureBoneIndices(reduced, armature))
    /\ psa_pc = "written" =>
         \A ranked \in {RankedBones} :
            \A import_bones \in {PsaImportBones(ReducedBones(ranked), armature)} :
                \A matrix \in {ConvertMatrix(ReducedKeys(ranked), import_bones)} :
                    SameAsReduced(ranked, import_bones, matrix)

\* A written sequence of a file whose first bone the armature lacks: the bone's
\* samples differ between frames, and the bone after it has keyframes.
C6_Witness ==
    /\ psa_pc = "written"
    /\ 0 \notin NamedBones
    /\ 1 \in NamedBones
    /\ \E f \in Frames : psa_keys[f][0] # psa_keys[0][0]
    /\ \E k \in keyframes : k[1] = psa_bones[1] /\ k[3] > 0

\* The sample the conversion formula gives: q . conjugate(q') with
\* q = post_quat . orig_quat and q' = post_quat . (conjugate(key_rotation) for a
\* root, key_rotation otherwise), and (key_location - orig_loc) rotated by
\* conjugate(post_quat)
ExpectedLocal(import_bone, key_data, root) ==
    LET key_rotation == KeyRotation(key_data)
        q1 == QRotate(import_bone.post_quat, import_bone.orig_quat)
        q2 == QRotate(import_bone.post_quat,
                      IF root THEN Conj(key_rotation) ELSE key_rotation)
    IN  KeyData(QRotate(q1, Conj(q2)),
                VRotate(VSub(KeyLocation(key_data), import_bone.orig_loc),
                        Conj(import_bone.post_quat)))

\* The bone is a root of the target skeleton
IsArmatureRoot(b) == armature[psa_import_bones[b].armature_bone].parent = NoParentIndex

\* The bone's parent in the target skeleton has no bone of its name in the PSA
ParentNotInPsa(b) ==
    /\ ~IsArmatureRoot(b)
    /\ \A i \in DOMAIN psa_bones :
         psa_bones[i] # armature[armature[psa_import_bones[b].armature_bone].parent].name

\* C7 as stated: every converted sample is the formula's, the key rotation being
\* conjugated for the root bone and for no other bone.
C7_ConjugateRootOnly ==
    SequenceConverted =>
        \A b \in MappedBones : \A f \in Frames :
            sequence_data_matrix[f][b] =
                ExpectedLocal(psa_import_bones[b], psa_keys[f][b], IsArmatureRoot(b))

\* What import_psa does: every converted sample is the formula's, the key
\* rotation being conjugated for the bones whose ImportBone has no parent: the
\* roots of the target skeleton and the bones whose parent there has no bone of
\* its name in the PSA.
ConjugatedWhenParentless ==
    SequenceConverted =>
        \A b \in MappedBones : \A f \in Frames :
            sequence_data_matrix[f][b] =
                ExpectedLocal(psa_import_bones[b], psa_keys[f][b],
                              IsArmatureRoot(b) \/ ParentNotInPsa(b))

\* A converted sample of a bone that is no root of the target skeleton, its
\* parent's name absent from the PSA: the sample is the one with the key rotation
\* conjugated, and differs from the one without.
C7_Witness ==
    /\ SequenceConverted
    /\ \E b \in MappedBones : \E f \in Frames :
         /\ ParentNotInPsa(b)
         /\ ExpectedLocal(psa_import_bones[b], psa_keys[f][b], TRUE)
              # ExpectedLocal(psa_import_bones[b], psa_keys[f][b], FALSE)
         /\ sequence_data_matrix[f][b]
              = ExpectedLocal(psa_import_bones[b], psa_keys[f][b], TRUE)

\* ------------------------------------------------------------------------
\* Properties of the skeleton built by import_psk

\* The second pass has run over every bone
SecondPassDone ==
    \/ psk_pc \in {"pass2", "pass3", "done"}
    \/ psk_pc = "raised" /\ edit_bones # <<>>

\* The bones the second pass gave a parent
Parented == {b \in DOMAIN psk_import_bones : psk_import_bones[b].parent # NoParentIndex}

world_translation(b) == psk_import_bones[b].world_matrix.translation
world_rotation(b) == psk_import_bones[b].world_rotation_matrix

\* The hierarchy composition law for bone b
Composed(b) ==
    LET parent == psk_import_bones[b].parent
    IN  /\ world_translation(b) =
              VAdd(world_translation(parent),
                   MatVec(world_rotation(parent), psk_import_bones[b].local_translation))
        /\ world_rotation(b) =
              MatMul(world_rotation(parent),
                     QuatToMat(Conj(psk_import_bones[b].local_rotation)))

\* C8 as stated: after the passes the composition law holds for every bone that
\* has a parent, against the parent's final world values, whatever the parent's
\* index.
C8_ComposedAnyParent == SecondPassDone => \A b \in Parented : Composed(b)

\* C8, amended: after the passes the composition law holds, against the parent's
\* final world values, for every bone whose parent's index is smaller than its
\* own.
C8_ComposedEarlierParent ==
    SecondPassDone =>
        \A b \in Parented : psk_import_bones[b].parent < b => Composed(b)

\* A chain of three bones, each the parent of the next, composed to the end
C8_Witness ==
    /\ SecondPassDone
    /\ DOMAIN psk_import_bones = 0..2
    /\ psk_import_bones[0].parent = NoParentIndex
    /\ psk_import_bones[1].parent = 0
    /\ psk_import_bones[2].parent = 1
    /\ world_rotation(2) # world_rotation(1)
    /\ world_translation(2) # world_translation(1)

\* The parent_index chain of bone b reaches the root entry within fuel steps
RECURSIVE ReachesRoot(_, _, _)
ReachesRoot(bones, b, fuel) ==
    \/ IsRootEntry(bones[b], b)
    \/ /\ fuel > 0
       /\ bones[b].parent_index \in DOMAIN bones
       /\ ReachesRoot(bones, bones[b].parent_index, fuel - 1)

\* A parent_index of the file is out of range (after the clamp of line 70)
HasParentOutOfRange ==
    \E b \in DOMAIN psk_bones :
        /\ ~IsRootEntry(ClampParents(psk_bones)[b], b)
        /\ ClampParents(psk_bones)[b].parent_index \notin DOMAIN psk_bones

\* A parent_index chain of the file forms a cycle
HasParentCycle ==
    /\ ~HasParentOutOfRange
    /\ \E b \in DOMAIN psk_bones :
         ~ReachesRoot(ClampParents(psk_bones), b, MaxBones + 1)

\* import_psk has returned or raised
PskEnded == psk_pc \in {"done", "raised"}

\* C9 as stated: when a parent_index is out of range or the chain forms a cycle,
\* import_psk ends with an error and has created or linked no armature, bone,
\* mesh or material.
C9_BadParentIsFatal ==
    (PskEnded /\ (HasParentOutOfRange \/ HasParentCycle)) =>
        /\ psk_error # "none"
        /\ bpy_data = {}
        /\ scene_objects = {}
        /\ edit_bones = <<>>

\* import_psk returns without error for a file in which a bone is its own parent
C9_Witness ==
    /\ psk_pc = "done"
    /\ psk_error = "none"
    /\ HasParentCycle
    /\ \E b \in DOMAIN psk_bones : b > 0 /\ psk_bones[b].parent_index = b

\* C10: post_quat is the conjugate of orig_quat on every edit bone import_psk
\* has given its bind pose (orig_quat being the rotation the ImportBone is left
\* with) and on every ImportBone of import_psa, cached or recomputed.
C10_PostQuatConjugate ==
    /\ \A i \in DOMAIN edit_bones :
          edit_bones[i].has_props =>
             /\ edit_bones[i].post_quat = Conj(edit_bones[i].orig_quat)
             /\ edit_bones[i].orig_quat = psk_import_bones[i - 1].local_rotation
    /\ \A b \in DOMAIN psa_import_bones :
          ~psa_import_bones[b].none =>
             psa_import_bones[b].post_quat = Conj(psa_import_bones[b].orig_quat)

\* import_psa has bound a bone with a parent from the rig's matrices, its
\* post_quat differing from its orig_quat, on an armature whose parentless edit
\* bone has a post_quat differing from its orig_quat
C10_Witness ==
    /\ psa_pc = "ready"
    /\ \E b \in DOMAIN psa_import_bones :
         /\ ~psa_import_bones[b].none
         /\ psa_import_bones[b].parent # NoParent
         /\ ~armature[psa_import_bones[b].armature_bone].has_orig_quat
         /\ psa_import_bones[b].post_quat # psa_import_bones[b].orig_quat
    /\ \E i \in DOMAIN edit_bones :
         /\ edit_bones[i].parent = NoParentIndex
         /\ edit_bones[i].has_props
         /\ edit_bones[i].post_quat # edit_bones[i].orig_quat

\* ------------------------------------------------------------------------
\* Properties of the bind poses of import_psa

\* The armature bone of the mapped PSA bone b
ArmatureBone(b) == armature[psa_import_bones[b].armature_bone]

\* The bind pose the rig's matrix_local gives the mapped PSA bone b
FromRig(b) == RecomputedBind(ArmatureBone(b), armature, psa_import_bones[b].parent)

\* C11: the bind pose of a mapped bone that carries the cached override is the
\* cached orig_quat, orig_loc and post_quat, whatever the rig's matrix_local
\* gives; the bind pose of a mapped bone without the override is the one
\* recomputed from the rig matrices.
C11_CachedOverrideWins ==
    BonesMapped =>
        \A b \in MappedBones :
            IF ArmatureBone(b).has_orig_quat
            THEN /\ psa_import_bones[b].orig_quat = ArmatureBone(b).orig_quat
                 /\ psa_import_bones[b].orig_loc = ArmatureBone(b).orig_loc
                 /\ psa_import_bones[b].post_quat = ArmatureBone(b).post_quat
            ELSE /\ psa_import_bones[b].orig_quat = FromRig(b).orig_quat
                 /\ psa_import_bones[b].orig_loc = FromRig(b).orig_loc
                 /\ psa_import_bones[b].post_quat = Conj(FromRig(b).orig_quat)

\* One armature with a bone bound from the cached override, which the rig's
\* matrices would have bound otherwise, and a bone bound from the rig's matrices
C11_Witness ==
    /\ psa_pc = "ready"
    /\ \E b \in MappedBones :
         /\ ArmatureBone(b).has_orig_quat
         /\ FromRig(b).orig_quat # ArmatureBone(b).orig_quat
         /\ FromRig(b).orig_loc # ArmatureBone(b).orig_loc
    /\ \E b \in MappedBones :
         /\ ~ArmatureBone(b).has_orig_quat
         /\ psa_import_bones[b].parent # NoParent

\* The ImportBones of import_psa on the armature import_psk has built, from the
\* cached override and from the rig's matrices
CachedPath == PsaImportBones(psa_bones, ArmatureOf(edit_bones, TRUE))
RecomputedPath == PsaImportBones(psa_bones, ArmatureOf(edit_bones, FALSE))

\* C12 as stated: on an armature built by import_psk the cached-override path and
\* the recomputation path give every bone the same orig_loc, orig_quat and
\* post_quat.
C12_PathsAgree ==
    psa_pc = "ready" => CachedPath = RecomputedPath

\* import_psa has bound, from the cached override, a bone of an armature built
\* by import_psk, and the rig's matrices give that bone another orig_quat
C12_Witness ==
    /\ psa_pc = "ready"
    /\ psk_pc = "done"
    /\ \E b \in MappedBones :
         /\ ArmatureBone(b).has_orig_quat
         /\ psa_import_bones[b] = CachedPath[b]
         /\ RecomputedPath[b].orig_quat # CachedPath[b].orig_quat

\* C18 as stated: a mapped bone's ImportBone.parent is none exactly when the bone
\* has no parent in the target skeleton, and a mapped bone with a parent there
\* has the ImportBone of that parent as its parent.
C18_ParentNoneIffRoot ==
    BonesMapped =>
        \A b \in MappedBones :
            IF ArmatureBone(b).parent = NoParentIndex
            THEN psa_import_bones[b].parent = NoParent
            ELSE /\ psa_import_bones[b].parent = armature[ArmatureBone(b).parent].name
                 /\ \E p \in MappedBones :
                      psa_import_bones[p].name = psa_import_bones[b].parent

\* What import_psa does: ImportBone.parent is none for the roots of the target
\* skeleton and for the bones whose parent there has no bone of its name in the
\* PSA; every other mapped bone has the ImportBone of its parent.
ParentNoneWhenParentUnmapped ==
    BonesMapped =>
        \A b \in MappedBones :
            IF IsArmatureRoot(b) \/ ParentNotInPsa(b)
            THEN psa_import_bones[b].parent = NoParent
            ELSE /\ psa_import_bones[b].parent = armature[ArmatureBone(b).parent].name
                 /\ \E p \in MappedBones :
                      psa_import_bones[p].name = psa_import_bones[b].parent

\* A mapped bone with a parent in the target skeleton and no parent ImportBone
C18_Witness ==
    /\ psa_pc = "ready"
    /\ \E b \in MappedBones :
         /\ ArmatureBone(b).parent # NoParentIndex
         /\ psa_import_bones[b].parent = NoParent

\* ------------------------------------------------------------------------
\* Properties of the mesh built by import_psk

\* import_psk has built the mesh
MeshBuilt == psk_pc = "done"

FaceIndices == DOMAIN psk_mesh.faces

\* The vertex indices the three wedges of face f resolve to
FaceVertices(f) ==
    {psk_mesh.wedges[psk_mesh.faces[f].wedge_indices[i]].point_index : i \in 1..3}

\* Fewer than three distinct vertex indices
IsDegenerate(f) == Cardinality(FaceVertices(f)) < 3

\* Three distinct vertices, those of an earlier face with three distinct vertices
RepeatsEarlierFace(f) ==
    /\ ~IsDegenerate(f)
    /\ \E g \in FaceIndices : g < f /\ FaceVertices(g) = FaceVertices(f)

\* The number of faces of the set before face f
CountBefore(set, f) == Cardinality({g \in set : g < f})

\* The faces of the set are the output faces, in file order, each with its
\* vertices in the reverse of the stored wedge order
AreOutputFaces(set) ==
    /\ Len(bm_faces) = Cardinality(set)
    /\ \A f \in set : \A i \in 1..3 :
         bm_faces[CountBefore(set, f) + 1].verts[i] =
             psk_mesh.wedges[psk_mesh.faces[f].wedge_indices[4 - i]].point_index

\* Every UV layer holds three entries per face of the set and no other
UVEntriesOf(set) ==
    \A n \in 1..Len(uv_layers) : Len(uv_layers[n].data) = 3 * Cardinality(set)

\* C13 as stated: a face is recorded degenerate exactly when its wedges resolve
\* to fewer than three distinct vertex indices; the other faces, and no more, are
\* the output faces and have entries in the UV layers; the count reported is the
\* number of degenerate faces.
C13_DegenerateIffFewVertices ==
    MeshBuilt =>
        /\ degenerate_face_indices = {f \in FaceIndices : IsDegenerate(f)}
        /\ AreOutputFaces({f \in FaceIndices : ~IsDegenerate(f)})
        /\ UVEntriesOf({f \in FaceIndices : ~IsDegenerate(f)})
        /\ warnings.degenerate = Cardinality({f \in FaceIndices : IsDegenerate(f)})

\* What import_psk does: the faces recorded, excluded and counted are the
\* degenerate faces and the faces on the vertices of an earlier face.
DegenerateOrRepeated ==
    MeshBuilt =>
        /\ degenerate_face_indices =
              {f \in FaceIndices : IsDegenerate(f) \/ RepeatsEarlierFace(f)}
        /\ AreOutputFaces(FaceIndices \ degenerate_face_indices)
        /\ UVEntriesOf(FaceIndices \ degenerate_face_indices)
        /\ warnings.degenerate = Cardinality(degenerate_face_indices)

\* A face with three distinct vertices, on the vertices of an earlier face, is
\* recorded degenerate, counted and left out of the mesh
C13_Witness ==
    /\ MeshBuilt
    /\ \E f \in FaceIndices :
         /\ RepeatsEarlierFace(f)
         /\ f \in degenerate_face_indices
         /\ warnings.degenerate = 1
         /\ Len(bm_faces) = Cardinality(FaceIndices) - 1

\* The UV the file gives wedge w in layer n (1 the primary layer), v flipped
FileUV(n, w) ==
    IF n = 1
    THEN <<psk_mesh.wedges[w].u, UvOne - psk_mesh.wedges[w].v>>
    ELSE LET uv == psk_mesh.extra_uvs[(n - 2) * Cardinality(DOMAIN psk_mesh.wedges) + w]
         IN  <<uv[1], UvOne - uv[2]>>

\* In every UV layer the k-th face of the set (in file order) owns entries
\* 3k, 3k+1, 3k+2, filled from its wedges in the reverse of the stored order
OwnsUVEntries(set) ==
    \A n \in 1..Len(uv_layers) : \A f \in set : \A i \in 1..3 :
        /\ 3 * CountBefore(set, f) + i \in DOMAIN uv_layers[n].data
        /\ uv_layers[n].data[3 * CountBefore(set, f) + i] =
              FileUV(n, psk_mesh.faces[f].wedge_indices[4 - i])

\* The faces with three distinct vertices
NonDegenerate == {f \in FaceIndices : ~IsDegenerate(f)}

\* The faces import_psk has not recorded in degenerate_face_indices
KeptFaces == FaceIndices \ degenerate_face_indices

\* C14 as stated: the output faces are the non-degenerate faces with their wedges
\* reversed, every UV layer has 3 entries per non-degenerate face, and the k-th
\* non-degenerate face owns entries 3k, 3k+1, 3k+2, filled in the same reversed
\* order.
C14_NonDegenerateOwnEntries ==
    MeshBuilt =>
        /\ AreOutputFaces(NonDegenerate)
        /\ UVEntriesOf(NonDegenerate)
        /\ OwnsUVEntries(NonDegenerate)

\* What import_psk does: the same, for the faces not recorded in
\* degenerate_face_indices.
KeptFacesOwnEntries ==
    MeshBuilt =>
        /\ AreOutputFaces(KeptFaces)
        /\ UVEntriesOf(KeptFaces)
        /\ OwnsUVEntries(KeptFaces)

\* A face with three distinct vertices follows a face left out for being on the
\* vertices of an earlier one, and its UV entries start three entries early
C14_Witness ==
    /\ MeshBuilt
    /\ Len(uv_layers) = 2
    /\ \E f \in KeptFaces :
         /\ CountBefore(NonDegenerate, f) = CountBefore(KeptFaces, f) + 1
         /\ uv_layers[1].data[3 * CountBefore(KeptFaces, f) + 1] =
               FileUV(1, psk_mesh.faces[f].wedge_indices[3])
         /\ 3 * CountBefore(NonDegenerate, f) + 1 \notin DOMAIN uv_layers[1].data

\* ------------------------------------------------------------------------
\* Properties of the vertex colours

\* import_psk has resolved the vertex colours
ColorsResolved ==
    /\ psk_pc = "done"
    /\ psk_mesh.has_vertex_colors
    /\ psk_options.should_import_vertex_colors

\* The wedges referencing point p, and the first of them
WedgesOf(p) == {w \in DOMAIN psk_mesh.wedges : psk_mesh.wedges[w].point_index = p}
FirstWedgeOf(p) == CHOOSE w \in WedgesOf(p) : \A x \in WedgesOf(p) : w <= x

\* The wedges of p whose colour is not that of the first wedge of p
Disagreeing(p) ==
    {w \in WedgesOf(p) : psk_mesh.vertex_colors[w] # psk_mesh.vertex_colors[FirstWedgeOf(p)]}

\* The colour of wedge w as the mesh stores it
StoredColor(w) ==
    LET c == Normalized(psk_mesh.vertex_colors[w])
    IN  IF psk_options.vertex_color_space = "SRGBA"
        THEN <<rgb_to_srgb(c[1]), rgb_to_srgb(c[2]), rgb_to_srgb(c[3]), c[4]>>
        ELSE c

\* The points flagged ambiguous
Flagged ==
    {ambiguous_vertex_color_point_indices[k] :
        k \in 1..Len(ambiguous_vertex_color_point_indices)}

\* C15: the colour kept for a vertex, and given to its loops, is that of the
\* first wedge referencing it; a vertex is flagged ambiguous exactly when a later
\* wedge referencing it has another colour.
C15_FirstWedgeWins ==
    ColorsResolved =>
        /\ \A p \in DOMAIN vertex_colors :
             /\ WedgesOf(p) # {} => vertex_colors[p] = StoredColor(FirstWedgeOf(p))
             /\ p \in Flagged <=> Disagreeing(p) # {}
        /\ \A l \in DOMAIN vertex_color_data :
             vertex_color_data[l] =
                 StoredColor(FirstWedgeOf(LoopVertexIndices(bm_faces)[l]))

\* A vertex of a face keeps the colour of its first wedge although its last
\* wedge has another, differing from it in alpha only, and is flagged
C15_Witness ==
    /\ ColorsResolved
    /\ bm_faces # <<>>
    /\ \E p \in DOMAIN vertex_colors : \E w \in Disagreeing(p) :
         /\ psk_mesh.vertex_colors[FirstWedgeOf(p)] = Red
         /\ psk_mesh.vertex_colors[w] = RedClear
         /\ \A x \in WedgesOf(p) : x <= w
         /\ vertex_colors[p] = StoredColor(FirstWedgeOf(p))
         /\ p \in Flagged
         /\ \E l \in DOMAIN vertex_color_data : LoopVertexIndices(bm_faces)[l] = p

\* C20 as stated: the count of ambiguous vertices reported is the number of
\* distinct vertices whose wedges disagree on colour.
C20_AmbiguousCountedOnce ==
    ColorsResolved =>
        warnings.ambiguous =
            Cardinality({p \in DOMAIN vertex_colors : Disagreeing(p) # {}})

\* What import_psk does: the count reported is the number of wedges whose colour
\* is not that of the first wedge of their vertex.
AmbiguousCountedPerWedge ==
    ColorsResolved =>
        /\ Len(ambiguous_vertex_color_point_indices) = warnings.ambiguous
        /\ \A p \in DOMAIN vertex_colors :
             Cardinality({k \in 1..Len(ambiguous_vertex_color_point_indices) :
                             ambiguous_vertex_color_point_indices[k] = p})
               = Cardinality(Disagreeing(p))

\* One vertex with two wedges that disagree with its first is reported as two
C20_Witness ==
    /\ ColorsResolved
    /\ warnings.ambiguous = 2
    /\ Cardinality(Flagged) = 1

\* The name fields import_psk reads, and those import_psa reads
PskNameFields ==
    {psk_bones[i].name : i \in DOMAIN psk_bones}
        \cup {psk_mesh.materials[k] : k \in DOMAIN psk_mesh.materials}

PsaNameFields ==
    {psa_bones[i] : i \in DOMAIN psa_bones}
        \cup {sequence_names[k] : k \in DOMAIN sequence_names}

\* C16 as stated: no encoding error is ever raised by the importers; whatever
\* the bytes of a bone, material or sequence name field, import_psk and
\* import_psa decode the name and continue.
C16_NoEncodingError ==
    /\ psk_error # DecodeError
    /\ psa_error # DecodeError

\* What the importers do: an import that gets to its end has read no name field
\* that its codec rejects, and one that has read such a field has raised.
DecodedOrRaised ==
    /\ psk_pc = "done" =>
          /\ PskNameFields \cap InvalidUtf8 = {}
          /\ VertexGroupsNamed(psk_mesh, psk_bones)
    /\ psa_pc \in {"ready", "read", "converted", "cleaned", "written", "done"} =>
          \A i \in DOMAIN psa_bones : psa_bones[i] \notin UndefinedCp1252
    /\ psa_pc \in {"read", "converted", "cleaned", "written", "done"} /\ actions = 0 =>
          \A k \in DOMAIN sequence_names :
              sequence_names[k] \notin InvalidUtf8 \cup UndefinedCp1252
    /\ psk_error = DecodeError =>
          \/ PskNameFields \cap InvalidUtf8 # {}
          \/ ~VertexGroupsNamed(psk_mesh, psk_bones)
    /\ psa_error = DecodeError =>
          PsaNameFields \cap (InvalidUtf8 \cup UndefinedCp1252) # {}

\* import_psk has imported a rig whose names are UTF-8, and import_psa onto it
\* has ended with UnicodeDecodeError on a name field of the PSA
C16_Witness ==
    /\ psk_pc = "done"
    /\ psa_pc = "raised"
    /\ psa_error = DecodeError
    /\ PsaNameFields \cap (InvalidUtf8 \cup UndefinedCp1252) # {}

\* import_psk has ended with UnicodeDecodeError on a bone name that is not UTF-8
PskNameRaised ==
    /\ psk_pc = "raised"
    /\ psk_error = DecodeError
    /\ edit_bones # <<>>
    /\ \E i \in DOMAIN psk_bones : psk_bones[i].name \in InvalidUtf8

\* import_bones as built from the file's bone table and the armature
BindPose == PsaImportBones(PsaBoneNames(psa_bones), armature)

\* C17: whatever sequences were imported before it in the same call, the converted
\* samples, the keep-matrix and the keyframes of a sequence are those its own
\* samples give with the bind pose built before the first sequence, and the bind
\* pose (orig_loc, orig_quat, post_quat, parent) is never altered by a sequence.
C17_SequencesIndependent ==
    /\ BonesMapped => psa_import_bones = BindPose
    /\ psa_pc = "read" =>
          /\ sequence_data_matrix = psa_keys
          /\ keyframe_write_matrix = Ones(psa_keys)
          /\ keyframes = {}
    /\ SequenceConverted =>
          sequence_data_matrix = ConvertMatrix(psa_keys, BindPose)
    /\ psa_pc = "converted" => keyframe_write_matrix = Ones(psa_keys)
    /\ KeysDecided =>
          keyframe_write_matrix =
              CleanKeys(Ones(psa_keys), ConvertMatrix(psa_keys, BindPose), BindPose,
                        should_clean_keys)
    /\ psa_pc = "written" =>
          keyframes =
              WrittenKeyframes(ConvertMatrix(psa_keys, BindPose),
                               CleanKeys(Ones(psa_keys),
                                         ConvertMatrix(psa_keys, BindPose), BindPose,
                                         should_clean_keys),
                               BindPose)

\* A second sequence has been written, with frames dropped, onto a bone whose
\* bind rotation is not the identity
C17_Witness ==
    /\ psa_pc = "written"
    /\ actions = 1
    /\ \E b \in MappedBones : psa_import_bones[b].orig_quat # QIdentity
    /\ keyframes # {}
    /\ \E f \in Frames : \E b \in MappedBones : \E c \in Channels : ~Kept(f, b, c)

\* The keyframe of (bone, channel) at frame f with the given sample as value
Keyframe(converted, f, b, c) == <<psa_bones[b], c, f, converted[f][b][c]>>

\* The keyframes written are those of the marked entries of mapped bones, with
\* the converted samples as values; without cleaning every entry is marked
KeyframesFollowKeepMatrix ==
    /\ psa_pc = "written" =>
          \A converted \in {ConvertMatrix(psa_keys, psa_import_bones)} :
             /\ \A f \in Frames : \A b \in DOMAIN psa_bones : \A c \in Channels :
                   /\ Keyframe(converted, f, b, c) \in keyframes
                         <=> (b \in MappedBones /\ Kept(f, b, c))
                   /\ (\E k \in keyframes : k[1] = psa_bones[b] /\ k[2] = c /\ k[3] = f)
                         <=> (b \in MappedBones /\ Kept(f, b, c))
             /\ \A k \in keyframes :
                   \E f \in Frames : \E b \in MappedBones : \E c \in Channels :
                      k = Keyframe(converted, f, b, c)
    /\ SequenceRead /\ ~should_clean_keys =>
          /\ keyframe_write_matrix = Ones(psa_keys)
          /\ psa_pc = "written" =>
                \A f \in Frames : \A b \in MappedBones : \A c \in Channels :
                   \E k \in keyframes : k[1] = psa_bones[b] /\ k[2] = c /\ k[3] = f

\* A step that marks an entry as dropped is taken with every sample of every
\* mapped bone converted, and no sample changes from then on until the next
\* sequence is read
ConvertedBeforeDecided ==
    /\ (keyframe_write_matrix' # keyframe_write_matrix /\ psa_pc' # "read") =>
          /\ psa_pc = "converted"
          /\ sequence_data_matrix = ConvertMatrix(psa_keys, psa_import_bones)
          /\ sequence_data_matrix' = sequence_data_matrix
    /\ (KeysDecided /\ psa_pc' # "read") => sequence_data_matrix' = sequence_data_matrix

\* C19: in every written sequence a keyframe is on the f-curve of (bone,
\* channel) at frame f exactly when the bone is mapped and the keep-matrix entry
\* (f, bone, channel) is set, and its value is the converted sample; with
\* should_clean_keys false the keep-matrix stays all ones and every frame of every
\* channel of every mapped bone is written; all samples are converted before any
\* entry is marked as dropped.
C19_KeyframeIffKept ==
    []KeyframesFollowKeepMatrix /\ [][ConvertedBeforeDecided]_vars

\* A sequence is written in which a mapped bone has, in one frame, a channel
\* kept and a channel dropped, next to a bone that is not mapped
C19_Witness ==
    /\ psa_pc = "written"
    /\ DOMAIN psa_bones \ MappedBones # {}
    /\ \E f \in Frames : \E b \in MappedBones : \E c, d \in Channels :
         /\ Kept(f, b, c)
         /\ ~Kept(f, b, d)
         /\ \E k \in keyframes : k[1] = psa_bones[b] /\ k[2] = c /\ k[3] = f
         /\ \A k \in keyframes : ~(k[1] = psa_bones[b] /\ k[2] = d /\ k[3] = f)

\* ------------------------------------------------------------------------
\* Properties of the export material list

\* The selection is an item of the list
SelectionInRange == material_list_index \in 0..(Len(material_list) - 1)

\* The two lists hold the same items, each as often
IsPermutation(a, b) ==
    /\ Len(a) = Len(b)
    /\ \A k \in 1..Len(a) :
          Cardinality({j \in 1..Len(a) : a[j] = a[k]})
            = Cardinality({j \in 1..Len(b) : b[j] = a[k]})

\* A step of one of the two move operators
MoveExecuted == PSK_OT_material_list_move_up \/ PSK_OT_material_list_move_down

\* After the step the selection is an item of the list, the list is a
\* permutation of what it was, and the item selected before is the one selected
SelectionFollows ==
    /\ material_list_index' \in 0..(Len(material_list') - 1)
    /\ IsPermutation(material_list', material_list)
    /\ SelectionInRange
    /\ material_list'[material_list_index' + 1] = material_list[material_list_index + 1]

\* C21 as stated: after every move operator that poll allows, executed on a list
\* filled by populate_material_list, material_list_index is within
\* 0..len(material_list)-1, the list is a permutation of the populated materials,
\* and the material selected before the move is the one at material_list_index.
C21_MovesKeepSelection == [][MoveExecuted => SelectionFollows]_vars

\* The list holds each material once, and the items carry the positions
\* populate_material_list gave them
ListIsPopulated ==
    /\ \A j, k \in 1..Len(material_list) :
          material_list[j].material = material_list[k].material => j = k
    /\ {material_list[k].index : k \in 1..Len(material_list)}
          = 0..(Len(material_list) - 1)
    /\ \A k \in 1..Len(material_list) : material_list[k].material \in Materials

\* What the operators do: the list is at all times a permutation of what
\* populate_material_list put in, and a move that starts with the selection on
\* an item of the list keeps it on that item; a list filled anew keeps the index
\* of the list before it.
SelectionFollowsWhenInRange ==
    /\ []ListIsPopulated
    /\ [][(MoveExecuted /\ SelectionInRange) => SelectionFollows]_vars
    /\ [][PSK_OT_export_invoke => material_list_index' = material_list_index]_vars

\* A move operator has finished on a list that has items, none of them at
\* material_list_index
C21_Witness ==
    /\ export_result = "FINISHED"
    /\ material_list # <<>>
    /\ ~SelectionInRange

\* A move operator has finished with the selection moved along with its item
MovedInRange ==
    /\ export_result = "FINISHED"
    /\ SelectionInRange
    /\ material_list[material_list_index + 1].index # material_list_index

====
